---------------------------- MODULE Spec2Model ----------------------------
(* Mal-80 (TRS-80 Model I emulator): Z80 core, bus with video timing and    *)
(* interrupt latches, FD1771 floppy controller and the frame driver.        *)
(*                                                                          *)
(* The machine state is the four records cpu, bus, fdc and mem.  Operators  *)
(* that model C++ member functions take the machine record                  *)
(*   M = [cpu |-> .., bus |-> .., fdc |-> .., mem |-> ..]                   *)
(* and return the machine after the call (and the returned value, if any).  *)
(* Bytes of memory that were never written during the modelled run (the ROM *)
(* image, RAM left by earlier execution) are inputs of the reading action.  *)
EXTENDS Integers, Sequences, FiniteSets, TLC

VARIABLES
    cpu,          \* Z80 registers and latches (Z80::reg, prefix, t_states)
    bus,          \* Bus timing counters and interrupt latches
    fdc,          \* FDC registers, transfer buffer and drives
    mem,          \* bytes written to ROM shadow, VRAM and RAM: address -> byte
    frame_ts,     \* Emulator::step_frame, local frame_ts
    total_ticks,  \* Emulator::total_ticks_
    phase,        \* position in the step_frame loop body: "step" or "deliver"
    iter,         \* number of operations performed (bounds the run)
    frame,        \* history: frames completed, acceptances and the CPU state
                  \* at the start of the current frame
    ev,           \* history: the last operation, the machine before it and
                  \* the tick count it returned or charged
    tape,         \* the Bus of a second machine, which plays a cassette into
                  \* this machine's recorder (SpecCas)
    emu           \* the Emulator's other members: the key injector's queue

vars ==
    <<cpu, bus, fdc, mem, frame_ts, total_ticks, phase, iter, frame, ev, tape,
      emu>>

-----------------------------------------------------------------------------
(* Program constants                                                        *)

ROM_END == 12287
KEYBOARD_START == 14336
KEYBOARD_END == 15359
VRAM_START == 15360
VRAM_END == 16383
RAM_START == 16384
RAM_END == 65535
IRQ_LATCH_START == 14304
IRQ_LATCH_END == 14307
FDC_REG_END == 14319
FDC_STATUS == 14316
FDC_TRACK == 14317
FDC_SECTOR == 14318
FDC_DATA == 14319

VIDEO_SCANLINE_START == 48
VIDEO_SCANLINE_END == 48 + 192
VIDEO_TOTAL_SCANLINES == 262
VIDEO_T_STATES_PER_SCANLINE == 114
VIDEO_T_STATES_PER_FRAME == 29498
CONTENTION_START == 30
CONTENTION_END == 90
CONTENTION_WAIT == 2

T_STATES_PER_FRAME == 29498
IM1_LATENCY == 13
IM1_VECTOR == 56

ST_BUSY == 1
ST_DRQ == 2
ST_TRACK0 == 4
ST_RNF == 16
ST_RECTYPE == 32
ST_NOTREADY == 128

DRIVES == 4
SECTORS_PER_TRACK == 10
BYTES_PER_SECTOR == 256
MAX_TRACKS == 35
DELETED_TRACK == 17
READ_ADDRESS_LEN == 6

-----------------------------------------------------------------------------
(* Fixed-width arithmetic                                                   *)

U16(x) == x % 65536
U8(x) == x % 256
Lo(w) == w % 256
Hi(w) == (w \div 256) % 256
Word(hi, lo) == hi * 256 + lo
BitSet(x, k) == (x \div (2 ^ k)) % 2 = 1

\* The element of a one-element set: Only({e(x) : x \in {v}}) is e(v), with v
\* computed once, as the code computes a local once.
Only(S) == CHOOSE x \in S : TRUE

\* status_ &= ~(ST_BUSY | ST_DRQ)
ClearBusyDrq(s) == s - (s % 4)

-----------------------------------------------------------------------------
(* FDC (FD1771)                                                             *)

\* Content of byte off of the disk image file attached at start-up.
ImageFileByte(off) == (off * 7 + (off \div 256) * 13 + 1) % 256

\* Byte off of a drive's image: a sector written since start-up, else the file.
ImageByte(d, off) ==
    LET sec == off \div BYTES_PER_SECTOR
    IN  IF sec \in DOMAIN d.written
        THEN d.written[sec][off % BYTES_PER_SECTOR]
        ELSE ImageFileByte(off)

\* Variant of read_sector that takes the sector number as the byte offset unit
\* of the track.
Drive_read_sector_flat(d, track, sector) ==
    LET offset == (track + sector) * BYTES_PER_SECTOR
    IN  [i \in 0..(BYTES_PER_SECTOR - 1) |->
            IF offset + BYTES_PER_SECTOR <= d.size
            THEN ImageByte(d, offset + i)
            ELSE 0]

\* FDC::Drive::read_sector
Drive_read_sector(d, track, sector) ==
    LET offset == (track * SECTORS_PER_TRACK + sector) * BYTES_PER_SECTOR
    IN  [i \in 0..(BYTES_PER_SECTOR - 1) |->
            IF offset + BYTES_PER_SECTOR <= d.size
            THEN ImageByte(d, offset + i)
            ELSE 0]

\* FDC::Drive::write_sector
Drive_write_sector(d, track, sector, data) ==
    LET sec    == track * SECTORS_PER_TRACK + sector
        offset == sec * BYTES_PER_SECTOR
    IN  [d EXCEPT !.size = IF offset + BYTES_PER_SECTOR > @
                           THEN offset + BYTES_PER_SECTOR ELSE @,
                  !.written = (sec :> data) @@ @]

\* FDC::select_drive
select_drive(f, val) ==
    LET hit == {i \in 0..(DRIVES - 1) : BitSet(val, i)}
    IN  [f EXCEPT !.drive_sel_ = val,
                  !.last_drive_ = IF hit = {} THEN @
                                  ELSE CHOOSE i \in hit : \A j \in hit : i <= j]

\* FDC::current_drive
current_drive(f) ==
    LET hit == {i \in 0..2 : BitSet(f.drive_sel_, i)}
    IN  IF hit = {} THEN f.last_drive_
        ELSE CHOOSE i \in hit : \A j \in hit : i <= j

\* FDC::active_drive: the selected drive's index, or -1 for nullptr
active_drive(f) ==
    LET idx == current_drive(f)
    IN  IF idx < 0 \/ ~f.drives[idx].loaded THEN -1 ELSE idx

NotReady(f) == [f EXCEPT !.status_ = ST_NOTREADY, !.intrq_ = TRUE]

\* FDC::cmd_restore
cmd_restore(f) ==
    LET d == active_drive(f)
    IN  IF d < 0 THEN NotReady(f)
        ELSE [f EXCEPT !.drives[d].head_track = 0,
                       !.track_ = 0,
                       !.status_ = ST_TRACK0,
                       !.intrq_ = TRUE]

\* FDC::cmd_seek
cmd_seek(f) ==
    LET d == active_drive(f)
        target == IF f.data_ >= MAX_TRACKS THEN MAX_TRACKS - 1 ELSE f.data_
    IN  IF d < 0 THEN NotReady(f)
        ELSE [f EXCEPT !.last_dir_ = IF target > f.drives[d].head_track
                                     THEN 1 ELSE -1,
                       !.drives[d].head_track = target,
                       !.track_ = U8(target),
                       !.status_ = IF U8(target) = 0 THEN ST_TRACK0 ELSE 0,
                       !.intrq_ = TRUE]

\* Variant of cmd_step that moves the head without clamping it to the disk.
cmd_step_unclamped(f, dir, update_track) ==
    LET d == active_drive(f)
        next == IF d < 0 THEN 0 ELSE f.drives[d].head_track + dir
    IN  IF d < 0 THEN NotReady(f)
        ELSE [f EXCEPT !.last_dir_ = dir,
                       !.drives[d].head_track = next,
                       !.track_ = IF update_track THEN next % 256 ELSE @,
                       !.status_ = IF next = 0 THEN ST_TRACK0 ELSE 0,
                       !.intrq_ = TRUE]

\* FDC::cmd_step
cmd_step(f, dir, update_track) ==
    LET d == active_drive(f)
        raw == IF d < 0 THEN 0 ELSE f.drives[d].head_track + dir
        next == IF raw < 0 THEN 0
                ELSE IF raw >= MAX_TRACKS THEN MAX_TRACKS - 1 ELSE raw
    IN  IF d < 0 THEN NotReady(f)
        ELSE [f EXCEPT !.last_dir_ = dir,
                       !.drives[d].head_track = next,
                       !.track_ = IF update_track THEN U8(next) ELSE @,
                       !.status_ = IF next = 0 THEN ST_TRACK0 ELSE 0,
                       !.intrq_ = TRUE]

\* FDC::cmd_read_sector
cmd_read_sector(f) ==
    LET d == active_drive(f)
        t == IF d < 0 THEN 0 ELSE f.drives[d].head_track
        s == f.sector_
    IN  IF d < 0 THEN NotReady(f)
        ELSE IF s >= SECTORS_PER_TRACK \/ t >= MAX_TRACKS
        THEN [f EXCEPT !.status_ = ST_RNF, !.intrq_ = TRUE]
        ELSE [f EXCEPT !.buf_ = Drive_read_sector(f.drives[d], t, s),
                       !.read_from_ = [drive |-> d, track |-> t, sector |-> s],
                       !.buf_pos_ = 0,
                       !.buf_len_ = BYTES_PER_SECTOR,
                       !.status_ = ST_BUSY + ST_DRQ +
                           (IF t = DELETED_TRACK THEN ST_RECTYPE ELSE 0)]

\* Variant of Write Sector that starts a transfer without the range check.
cmd_write_sector_unchecked(f) ==
    LET d == active_drive(f)
        t == IF d < 0 THEN 0 ELSE f.drives[d].head_track
        s == f.sector_
    IN  IF d < 0 THEN NotReady(f)
        ELSE [f EXCEPT !.write_pending_ = TRUE,
                       !.write_track_ = t,
                       !.write_sector_ = s,
                       !.buf_pos_ = 0,
                       !.buf_len_ = BYTES_PER_SECTOR,
                       !.status_ = ST_BUSY + ST_DRQ]

\* FDC::cmd_write_sector
cmd_write_sector(f) ==
    LET d == active_drive(f)
        t == IF d < 0 THEN 0 ELSE f.drives[d].head_track
        s == f.sector_
    IN  IF d < 0 THEN NotReady(f)
        ELSE IF s >= SECTORS_PER_TRACK \/ t >= MAX_TRACKS
        THEN [f EXCEPT !.status_ = ST_RNF, !.intrq_ = TRUE]
        ELSE [f EXCEPT !.write_pending_ = TRUE,
                       !.write_track_ = t,
                       !.write_sector_ = s,
                       !.buf_pos_ = 0,
                       !.buf_len_ = BYTES_PER_SECTOR,
                       !.status_ = ST_BUSY + ST_DRQ]

\* FDC::cmd_read_address
cmd_read_address(f) ==
    LET d == active_drive(f)
        trk == IF d < 0 THEN 0 ELSE U8(f.drives[d].head_track)
        sec == f.sector_
    IN  IF d < 0 THEN NotReady(f)
        ELSE [f EXCEPT !.buf_ = [i \in 0..(BYTES_PER_SECTOR - 1) |->
                                   CASE i = 0 -> trk
                                     [] i = 1 -> 0
                                     [] i = 2 -> sec
                                     [] i = 3 -> 1
                                     [] i = 4 -> 0
                                     [] i = 5 -> 0
                                     [] OTHER -> f.buf_[i]],
                       !.buf_pos_ = 0,
                       !.buf_len_ = READ_ADDRESS_LEN,
                       !.track_ = trk,
                       !.status_ = ST_BUSY + ST_DRQ]

\* Variant of cmd_force_interrupt that leaves the DRQ bit as it was.
cmd_force_interrupt_keeps_drq(f, cmd) ==
    [f EXCEPT !.status_ = IF BitSet(@, 0) THEN @ - ST_BUSY ELSE @,
              !.intrq_ = IF BitSet(cmd, 3) THEN TRUE ELSE @]

\* FDC::cmd_force_interrupt
cmd_force_interrupt(f, cmd) ==
    [f EXCEPT !.status_ = ClearBusyDrq(@),
              !.intrq_ = IF BitSet(cmd, 3) THEN TRUE ELSE @]

\* FDC::execute_command, first part: cancel any in-progress transfer
cancel_transfer(f) ==
    [f EXCEPT !.buf_len_ = 0,
              !.buf_pos_ = 0,
              !.write_pending_ = FALSE,
              !.intrq_ = FALSE]

\* FDC::execute_command
execute_command(f, cmd) ==
    LET g == cancel_transfer(f)
        type == cmd \div 16
    IN  CASE type = 0 -> cmd_restore(g)
          [] type = 1 -> cmd_seek(g)
          [] type = 2 -> cmd_step(g, g.last_dir_, FALSE)
          [] type = 3 -> cmd_step(g, g.last_dir_, TRUE)
          [] type = 4 -> cmd_step(g, 1, FALSE)
          [] type = 5 -> cmd_step(g, 1, TRUE)
          [] type = 6 -> cmd_step(g, -1, FALSE)
          [] type = 7 -> cmd_step(g, -1, TRUE)
          [] type \in {8, 9} -> cmd_read_sector(g)
          [] type \in {10, 11} -> cmd_write_sector(g)
          [] type = 12 -> cmd_read_address(g)
          [] type = 13 -> cmd_force_interrupt(g, cmd)
          [] OTHER -> cmd_force_interrupt(g, 208)

\* FDC::read, case 0x37EC (status register)
FDC_read_status(f) == [f |-> [f EXCEPT !.intrq_ = FALSE], value |-> f.status_]

\* Variant of the data-register read that ends a transfer without INTRQ.
FDC_read_data_silent(f) ==
    IF f.buf_len_ > 0 /\ f.buf_pos_ < f.buf_len_
    THEN LET byte == f.buf_[f.buf_pos_]
             pos  == f.buf_pos_ + 1
             g    == [f EXCEPT !.data_ = byte, !.buf_pos_ = pos]
         IN  IF pos >= f.buf_len_
             THEN [f |-> [g EXCEPT !.buf_len_ = 0,
                                   !.status_ = ClearBusyDrq(@)],
                   value |-> byte]
             ELSE [f |-> g, value |-> byte]
    ELSE [f |-> f, value |-> f.data_]

\* FDC::read, case 0x37EF (data register)
FDC_read_data(f) ==
    IF f.buf_len_ > 0 /\ f.buf_pos_ < f.buf_len_
    THEN LET byte == f.buf_[f.buf_pos_]
             pos  == f.buf_pos_ + 1
             g    == [f EXCEPT !.data_ = byte, !.buf_pos_ = pos]
         IN  IF pos >= f.buf_len_
             THEN [f |-> [g EXCEPT !.buf_len_ = 0,
                                   !.status_ = ClearBusyDrq(@),
                                   !.intrq_ = TRUE],
                   value |-> byte]
             ELSE [f |-> g, value |-> byte]
    ELSE [f |-> f, value |-> f.data_]

\* FDC::read
FDC_read(f, addr) ==
    CASE addr = FDC_STATUS -> FDC_read_status(f)
      [] addr = FDC_TRACK  -> [f |-> f, value |-> f.track_]
      [] addr = FDC_SECTOR -> [f |-> f, value |-> f.sector_]
      [] addr = FDC_DATA   -> FDC_read_data(f)
      [] OTHER -> [f |-> f, value |-> 255]

\* FDC::write, case 0x37EF (data register)
FDC_write_data(f, val) ==
    LET g == [f EXCEPT !.data_ = val]
    IN  IF f.write_pending_ /\ f.buf_len_ > 0 /\ f.buf_pos_ < f.buf_len_
        THEN LET pos == f.buf_pos_ + 1
                 h   == [g EXCEPT !.buf_[f.buf_pos_] = val, !.buf_pos_ = pos]
                 d   == active_drive(h)
             IN  IF pos >= f.buf_len_
                 THEN [h EXCEPT !.drives = IF d < 0 THEN @
                                    ELSE [@ EXCEPT ![d] = Drive_write_sector(
                                        @, h.write_track_, h.write_sector_, h.buf_)],
                                !.buf_len_ = 0,
                                !.write_pending_ = FALSE,
                                !.status_ = ClearBusyDrq(@),
                                !.intrq_ = TRUE]
                 ELSE h
        ELSE g

\* Variant of FDC::write in which a track-register write acknowledges INTRQ.
FDC_write_track_ack(f, addr, val) ==
    CASE addr \in IRQ_LATCH_START..IRQ_LATCH_END -> select_drive(f, val)
      [] addr = FDC_STATUS -> execute_command(f, val)
      [] addr = FDC_TRACK  -> [f EXCEPT !.track_ = val, !.intrq_ = FALSE]
      [] addr = FDC_SECTOR -> [f EXCEPT !.sector_ = val]
      [] addr = FDC_DATA   -> FDC_write_data(f, val)
      [] OTHER -> f

\* FDC::write
FDC_write(f, addr, val) ==
    CASE addr \in IRQ_LATCH_START..IRQ_LATCH_END -> select_drive(f, val)
      [] addr = FDC_STATUS -> execute_command(f, val)
      [] addr = FDC_TRACK  -> [f EXCEPT !.track_ = val]
      [] addr = FDC_SECTOR -> [f EXCEPT !.sector_ = val]
      [] addr = FDC_DATA   -> FDC_write_data(f, val)
      [] OTHER -> f

\* FDC::intrq_pending
intrq_pending(f) == f.intrq_


-----------------------------------------------------------------------------
(* Bus                                                                      *)

\* Bus::is_visible_scanline
is_visible_scanline(b) ==
    b.current_scanline >= VIDEO_SCANLINE_START /\
    b.current_scanline < VIDEO_SCANLINE_END

\* Bus::should_insert_wait_state
should_insert_wait_state(b, addr, is_m1) ==
    LET t_in_line == b.t_states_in_scanline % VIDEO_T_STATES_PER_SCANLINE
    IN  /\ is_m1
        /\ addr >= VRAM_START /\ addr <= VRAM_END
        /\ is_visible_scanline(b)
        /\ t_in_line >= CONTENTION_START /\ t_in_line <= CONTENTION_END

\* Variant of update_video_timing that never starts a new scanline.
update_video_timing_no_rollover(b, t_states) ==
    [b EXCEPT !.t_states_in_scanline = @ + t_states]

\* Bus::update_video_timing
update_video_timing(b, t_states) ==
    LET t    == b.t_states_in_scanline + t_states
        over == t >= VIDEO_T_STATES_PER_SCANLINE
        line == IF over THEN b.current_scanline + 1 ELSE b.current_scanline
        wrap == over /\ line >= VIDEO_TOTAL_SCANLINES
    IN  [b EXCEPT !.t_states_in_scanline =
                      IF over THEN t - VIDEO_T_STATES_PER_SCANLINE ELSE t,
                  !.current_scanline = IF wrap THEN 0 ELSE line,
                  !.int_pending = IF wrap /\ b.iff_enabled THEN TRUE ELSE @,
                  !.int_for_latch = IF wrap /\ b.iff_enabled THEN TRUE ELSE @,
                  !.wraps = IF wrap THEN @ + 1 ELSE @]

\* Bus::add_ticks
Bus_add_ticks(b, t) ==
    update_video_timing([b EXCEPT !.global_t_states = @ + t], t)

\* Variant of clear_interrupt that also clears the sticky latch.
clear_interrupt_both(b) ==
    [b EXCEPT !.int_pending = FALSE, !.int_for_latch = FALSE]

\* Bus::clear_interrupt
clear_interrupt(b) == [b EXCEPT !.int_pending = FALSE]

\* Variant of interrupt_pending that ignores the FDC.
interrupt_pending_timer_only(M) == M.bus.int_pending

\* Bus::interrupt_pending
interrupt_pending(M) == M.bus.int_pending \/ intrq_pending(M.fdc)

\* Bus::read, IRQ status register 0x37E0-0x37E3
read_irq_latch(M) ==
    [M |-> [M EXCEPT !.bus.int_pending = FALSE, !.bus.int_for_latch = FALSE],
     value |-> (IF M.bus.int_for_latch THEN 128 ELSE 0) +
               (IF intrq_pending(M.fdc) THEN 64 ELSE 0)]

\* Content of a ROM byte, or of a VRAM/RAM byte: what was written during the
\* run, else the byte unk that was there before.
Stored(M, addr, unk) == IF addr \in DOMAIN M.mem THEN M.mem[addr] ELSE unk

\* Bus::read (unk: content of the addressed cell if never written; for the
\* keyboard range, the OR of the selected matrix rows)
Bus_read(M, addr, is_m1, unk) ==
    LET L == [M EXCEPT !.bus.reads = @ \cup {addr}]
        Waited ==
             IF should_insert_wait_state(M.bus, addr, is_m1)
             THEN [L EXCEPT !.bus = update_video_timing(
                       [@ EXCEPT !.global_t_states = @ + CONTENTION_WAIT],
                       CONTENTION_WAIT)]
             ELSE L
        Decode(W) ==
            CASE addr <= ROM_END -> [M |-> W, value |-> Stored(W, addr, unk)]
              [] addr >= KEYBOARD_START /\ addr <= KEYBOARD_END ->
                    [M |-> W, value |-> unk]
              [] addr >= VRAM_START /\ addr <= VRAM_END ->
                    [M |-> W, value |-> Stored(W, addr, unk)]
              [] addr >= RAM_START /\ addr <= RAM_END ->
                    [M |-> W, value |-> Stored(W, addr, unk)]
              [] addr >= IRQ_LATCH_START /\ addr <= IRQ_LATCH_END ->
                    read_irq_latch(W)
              [] addr > IRQ_LATCH_END /\ addr <= 14311 ->
                    [M |-> W, value |-> 255]
              [] addr > 14311 /\ addr <= 14315 -> [M |-> W, value |-> 48]
              [] addr > 14315 /\ addr <= FDC_REG_END ->
                    Only({[M |-> [W EXCEPT !.fdc = r.f], value |-> r.value] :
                             r \in {FDC_read(W.fdc, addr)}})
              [] OTHER -> [M |-> W, value |-> 255]
    IN  Only({Decode(W) : W \in {Waited}})

\* Bus::peek
Bus_peek(M, addr, unk) ==
    CASE addr <= ROM_END -> Stored(M, addr, unk)
      [] addr >= KEYBOARD_START /\ addr <= KEYBOARD_END -> 0
      [] addr >= VRAM_START /\ addr <= VRAM_END -> Stored(M, addr, unk)
      [] addr >= RAM_START -> Stored(M, addr, unk)
      [] OTHER -> 255

\* Variant of the write in which the ROM range is not writable.
Bus_write_rom_dropped(M, addr, val) ==
    LET L == [M EXCEPT !.bus.writes = @ \cup {addr}]
    IN  CASE addr <= ROM_END -> L
          [] addr >= IRQ_LATCH_START /\ addr <= FDC_REG_END ->
                [L EXCEPT !.fdc = FDC_write(@, addr, val)]
          [] addr >= VRAM_START /\ addr <= VRAM_END ->
                [L EXCEPT !.mem = (addr :> val) @@ @]
          [] addr >= RAM_START /\ addr <= RAM_END ->
                [L EXCEPT !.mem = (addr :> val) @@ @]
          [] OTHER -> L

\* Bus::write
Bus_write(M, addr, val) ==
    LET L == [M EXCEPT !.bus.writes = @ \cup {addr}]
    IN  CASE addr <= ROM_END -> [L EXCEPT !.mem = (addr :> val) @@ @]
          [] addr >= IRQ_LATCH_START /\ addr <= FDC_REG_END ->
                [L EXCEPT !.fdc = FDC_write(@, addr, val)]
          [] addr >= VRAM_START /\ addr <= VRAM_END ->
                [L EXCEPT !.mem = (addr :> val) @@ @]
          [] addr >= RAM_START /\ addr <= RAM_END ->
                [L EXCEPT !.mem = (addr :> val) @@ @]
          [] OTHER -> L

-----------------------------------------------------------------------------
(* Cassette: port 0xFF, playback waveform, recording decoder                *)

CAS_PORT == 255
CAS_BIT_PERIOD == 3548
CAS_HALF_0 == 1774
CAS_HALF_1 == 887
CAS_CYCLE_THRESH == 2600
CAS_IDLE_TIMEOUT == 200000
CAS_PAD_BYTES == 500
CAS_IDLE_TOGGLE == 1000

\* Variant of the signal that stays low when no cassette is playing.
get_cassette_signal_idle_low(b) ==
    IF b.cas_state # "PLAYING" \/ b.cas_data = << >>
    THEN FALSE
    ELSE LET elapsed == b.global_t_states - b.cas_playback_start_t
             data_elapsed == elapsed - CAS_HALF_0
             t_per_byte == CAS_BIT_PERIOD * 8
             byte_idx == data_elapsed \div t_per_byte
             current_byte == IF byte_idx < Len(b.cas_data)
                             THEN b.cas_data[byte_idx + 1] ELSE 0
             byte_offset == data_elapsed % t_per_byte
             bit_idx == byte_offset \div CAS_BIT_PERIOD
             bit_offset == byte_offset % CAS_BIT_PERIOD
             bit_val == (current_byte \div (2 ^ (7 - bit_idx))) % 2 = 1
             half_period == IF bit_val THEN CAS_HALF_1 ELSE CAS_HALF_0
             phase_no == bit_offset \div half_period
         IN  IF elapsed < CAS_HALF_0 THEN FALSE ELSE phase_no % 2 = 0

\* Variant of the signal without the lead-in: the first data bit starts with
\* playback.
get_cassette_signal_no_lead_in(b) ==
    IF b.cas_state # "PLAYING" \/ b.cas_data = << >>
    THEN (b.global_t_states \div CAS_IDLE_TOGGLE) % 2 = 0
    ELSE LET data_elapsed == b.global_t_states - b.cas_playback_start_t
             t_per_byte == CAS_BIT_PERIOD * 8
             byte_idx == data_elapsed \div t_per_byte
             current_byte == IF byte_idx < Len(b.cas_data)
                             THEN b.cas_data[byte_idx + 1] ELSE 0
             byte_offset == data_elapsed % t_per_byte
             bit_idx == byte_offset \div CAS_BIT_PERIOD
             bit_offset == byte_offset % CAS_BIT_PERIOD
             bit_val == (current_byte \div (2 ^ (7 - bit_idx))) % 2 = 1
             half_period == IF bit_val THEN CAS_HALF_1 ELSE CAS_HALF_0
             phase_no == bit_offset \div half_period
         IN  phase_no % 2 = 0

\* Bus::get_cassette_signal (cas_data is a sequence, so byte byte_idx of the
\* vector is cas_data[byte_idx + 1])
get_cassette_signal(b) ==
    IF b.cas_state # "PLAYING" \/ b.cas_data = << >>
    THEN (b.global_t_states \div CAS_IDLE_TOGGLE) % 2 = 0
    ELSE LET elapsed == b.global_t_states - b.cas_playback_start_t
             data_elapsed == elapsed - CAS_HALF_0
             t_per_byte == CAS_BIT_PERIOD * 8
             byte_idx == data_elapsed \div t_per_byte
             current_byte == IF byte_idx < Len(b.cas_data)
                             THEN b.cas_data[byte_idx + 1] ELSE 0
             byte_offset == data_elapsed % t_per_byte
             bit_idx == byte_offset \div CAS_BIT_PERIOD
             bit_offset == byte_offset % CAS_BIT_PERIOD
             bit_val == (current_byte \div (2 ^ (7 - bit_idx))) % 2 = 1
             half_period == IF bit_val THEN CAS_HALF_1 ELSE CAS_HALF_0
             phase_no == bit_offset \div half_period
         IN  IF elapsed < CAS_HALF_0 THEN FALSE ELSE phase_no % 2 = 0

\* Variant of realign_cas_clock that snaps to the start of the next byte.
realign_cas_clock_next_byte(b) ==
    IF b.cas_state # "PLAYING" \/ b.cas_data = << >> THEN b
    ELSE LET elapsed == b.global_t_states - b.cas_playback_start_t
             data_elapsed == elapsed - CAS_HALF_0
             t_per_byte == CAS_BIT_PERIOD * 8
             byte_idx == data_elapsed \div t_per_byte
             byte_offset == data_elapsed % t_per_byte
         IN  IF elapsed < CAS_HALF_0 THEN b
             ELSE IF byte_offset > 0
             THEN [b EXCEPT !.cas_playback_start_t =
                       b.global_t_states - (byte_idx + 1) * t_per_byte
                           - CAS_HALF_0]
             ELSE b

\* Bus::realign_cas_clock
realign_cas_clock(b) ==
    IF b.cas_state # "PLAYING" \/ b.cas_data = << >> THEN b
    ELSE LET elapsed == b.global_t_states - b.cas_playback_start_t
             data_elapsed == elapsed - CAS_HALF_0
             t_per_byte == CAS_BIT_PERIOD * 8
             byte_idx == data_elapsed \div t_per_byte
             byte_offset == data_elapsed % t_per_byte
         IN  IF elapsed < CAS_HALF_0 THEN b
             ELSE IF byte_offset > 0
             THEN [b EXCEPT !.cas_playback_start_t =
                       b.global_t_states - byte_idx * t_per_byte - CAS_HALF_0]
             ELSE b

\* Bus::read_port
read_port(b, port) ==
    IF port = CAS_PORT
    THEN (b.cas_prev_port_val % 128) +
         (IF get_cassette_signal(b) THEN 128 ELSE 0)
    ELSE 255

\* Variant of record_bit that assembles the byte least significant bit first.
record_bit_lsb_first(b, bit) ==
    LET byte == (b.cas_rec_byte \div 2) + (IF bit THEN 128 ELSE 0)
        n    == b.cas_rec_bit_count + 1
    IN  IF n = 8
        THEN [b EXCEPT !.cas_rec_data = Append(@, byte),
                       !.cas_rec_byte = 0,
                       !.cas_rec_bit_count = 0]
        ELSE [b EXCEPT !.cas_rec_byte = byte, !.cas_rec_bit_count = n]

\* Bus::record_bit
record_bit(b, bit) ==
    LET byte == U8(b.cas_rec_byte * 2 + (IF bit THEN 1 ELSE 0))
        n    == b.cas_rec_bit_count + 1
    IN  IF n = 8
        THEN [b EXCEPT !.cas_rec_data = Append(@, byte),
                       !.cas_rec_byte = 0,
                       !.cas_rec_bit_count = 0]
        ELSE [b EXCEPT !.cas_rec_byte = byte, !.cas_rec_bit_count = n]

\* Bus::on_cycle_start
on_cycle_start(b) ==
    LET now      == b.global_t_states
        interval == now - b.cas_last_cycle_t
        c        == [b EXCEPT !.cas_last_cycle_t = now]
    IN  IF b.cas_last_cycle_t = 0
        THEN [c EXCEPT !.cas_rec_cycle_count = 1]
        ELSE IF interval > CAS_IDLE_TIMEOUT
        THEN [c EXCEPT !.cas_rec_cycle_count = 1]
        ELSE IF interval > CAS_CYCLE_THRESH
        THEN [(IF b.cas_rec_cycle_count = 1 THEN record_bit(c, FALSE) ELSE c)
                 EXCEPT !.cas_rec_cycle_count = 1]
        ELSE IF b.cas_rec_cycle_count + 1 = 2
        THEN [record_bit(c, TRUE) EXCEPT !.cas_rec_cycle_count = 0]
        ELSE [c EXCEPT !.cas_rec_cycle_count = @ + 1]

\* Bus::on_cassette_write
on_cassette_write(b, val) ==
    IF b.cas_state # "RECORDING" THEN b
    ELSE LET c == [b EXCEPT !.cas_last_activity_t = b.global_t_states]
         IN  IF val % 2 = 1 /\ b.cas_prev_port_val % 2 = 0
             THEN on_cycle_start(c)
             ELSE c

\* Bus::write_port
write_port(b, port, val) ==
    IF port = CAS_PORT
    THEN [on_cassette_write(b, val) EXCEPT !.cas_prev_port_val = val]
    ELSE b

\* Bus::load_cas_file of a file that holds the bytes data
load_cas_file(b, data) == [b EXCEPT !.cas_data = data]

\* Bus::start_playback
start_playback(b) ==
    IF b.cas_data = << >> THEN b
    ELSE [b EXCEPT !.cas_state = "PLAYING",
                   !.cas_playback_start_t = b.global_t_states]

\* Bus::start_recording
start_recording(b) ==
    [b EXCEPT !.cas_state = "RECORDING",
              !.cas_rec_data = << >>,
              !.cas_rec_byte = 0,
              !.cas_rec_bit_count = 0,
              !.cas_rec_cycle_count = 0,
              !.cas_last_cycle_t = 0,
              !.cas_last_activity_t = b.global_t_states]

\* Bus::flush_recording (the file save is not modelled)
flush_recording(b) ==
    LET c == IF b.cas_rec_cycle_count = 1 THEN record_bit(b, FALSE) ELSE b
    IN  IF c.cas_rec_bit_count > 0
        THEN LET byte == U8(c.cas_rec_byte * (2 ^ (8 - c.cas_rec_bit_count)))
             IN  [c EXCEPT !.cas_rec_byte = byte,
                           !.cas_rec_data = Append(@, byte),
                           !.cas_rec_bit_count = 0]
        ELSE c

\* Bus::stop_cassette
stop_cassette(b) ==
    [(IF b.cas_state = "RECORDING" THEN flush_recording(b) ELSE b)
        EXCEPT !.cas_state = "IDLE"]

\* Bus::is_recording_idle
is_recording_idle(b) ==
    /\ b.cas_state = "RECORDING"
    /\ b.global_t_states - b.cas_last_activity_t > CAS_IDLE_TIMEOUT

\* Variant of is_playback_done that waits for the data bytes only.
is_playback_done_no_pad(b) ==
    IF b.cas_state # "PLAYING" \/ b.cas_data = << >> THEN FALSE
    ELSE b.global_t_states - b.cas_playback_start_t >=
             Len(b.cas_data) * CAS_BIT_PERIOD * 8

\* Bus::is_playback_done
is_playback_done(b) ==
    IF b.cas_state # "PLAYING" \/ b.cas_data = << >> THEN FALSE
    ELSE b.global_t_states - b.cas_playback_start_t >=
             (Len(b.cas_data) + CAS_PAD_BYTES) * CAS_BIT_PERIOD * 8

\* Emulator::step_frame, the auto-stop poll that ends the loop body
autostop_cassette(b) ==
    IF is_recording_idle(b) \/ is_playback_done(b)
    THEN stop_cassette(b) ELSE b

-----------------------------------------------------------------------------
(* Z80                                                                      *)

PREFIX_CB == 203
PREFIX_ED == 237
PREFIX_DD == 221
PREFIX_FD == 253
OP_NOP == 0
OP_LD_HL_NN == 33
OP_LD_C_L == 77
OP_HALT == 118
OP_DI == 243
OP_EI == 251
OP_LD_A_N == 62
OP_LD_A_MEM == 58
OP_LD_MEM_A == 50
OP_LD_SP_NN == 49
OP_JP == 195
OP_RST38 == 255
OP_OUT_N_A == 211
OP_IN_A_N == 219
ED_RETN == 69
ED_RETI == 77
ED_LDIR == 176
ED_LDDR == 184

\* Z80::add_ticks
Z80_add_ticks(M, t) == [M EXCEPT !.cpu.t_states = @ + t]

\* Z80::fetch (the refresh register is not modelled)
fetch(M, is_m1, unk) ==
    Only({[M |-> [r.M EXCEPT !.cpu.pc = U16(@ + 1)], value |-> r.value] :
             r \in {Bus_read(M, M.cpu.pc, is_m1, unk)}})

\* Z80::fetch16
fetch16(M, unk_lo, unk_hi) ==
    LET High(lo) ==
            Only({[M |-> hi.M, value |-> Word(hi.value, lo.value)] :
                     hi \in {fetch(lo.M, FALSE, unk_hi)}})
    IN  Only({High(lo) : lo \in {fetch(M, FALSE, unk_lo)}})

\* Z80::push
push(M, val) ==
    LET sp1 == U16(M.cpu.sp - 1)
        sp2 == U16(M.cpu.sp - 2)
    IN  Only({Bus_write([A EXCEPT !.cpu.sp = sp2], sp2, Lo(val)) :
                 A \in {Bus_write([M EXCEPT !.cpu.sp = sp1], sp1, Hi(val))}})

\* Z80::pop
pop(M, unk_lo, unk_hi) ==
    LET High(lo) ==
            Only({[M |-> [hi.M EXCEPT !.cpu.sp = U16(@ + 1)],
                   value |-> Word(hi.value, lo.value)] :
                     hi \in {Bus_read([lo.M EXCEPT !.cpu.sp = U16(@ + 1)],
                                      U16(lo.M.cpu.sp + 1), FALSE, unk_hi)}})
    IN  Only({High(lo) : lo \in {Bus_read(M, M.cpu.sp, FALSE, unk_lo)}})

\* Z80::op_halt
op_halt(M) == [M EXCEPT !.cpu.halted = TRUE]

\* Z80::op_di
op_di(M) == [M EXCEPT !.cpu.iff1 = FALSE, !.cpu.iff2 = FALSE]

\* Variant of op_ei that enables IFF1 and leaves IFF2 alone.
op_ei_iff1_only(M) == [M EXCEPT !.cpu.iff1 = TRUE]

\* Z80::op_ei
op_ei(M) == [M EXCEPT !.cpu.iff1 = TRUE, !.cpu.iff2 = TRUE]

\* Z80::op_rst
op_rst(M, addr) == Z80_add_ticks([push(M, M.cpu.pc) EXCEPT !.cpu.pc = addr], 11)

\* main_table[0xCB], [0xED], [0xDD], [0xFD]
op_prefix(M, op) == Z80_add_ticks([M EXCEPT !.cpu.prefix = op], 4)

\* ed_table[0x45] (RETN) and ed_table[0x4D] (RETI)
op_retn(M, in) ==
    Only({Z80_add_ticks([p.M EXCEPT !.cpu.pc = p.value,
                                    !.cpu.iff1 = p.M.cpu.iff2], 10) :
             p \in {pop(M, in.d1, in.d2)}})

\* The opcodes of the default bank that the model executes.
MainOps ==
    {OP_NOP, OP_HALT, OP_DI, OP_EI, PREFIX_CB, PREFIX_ED, PREFIX_DD, PREFIX_FD,
     OP_LD_A_N, OP_LD_A_MEM, OP_LD_MEM_A, OP_LD_SP_NN, OP_JP, OP_RST38,
     OP_OUT_N_A, OP_IN_A_N, OP_LD_HL_NN, OP_LD_C_L}

\* Z80::init_main_table: the handler main_table[op]
main_table(M, op, in) ==
    CASE op = OP_NOP  -> Z80_add_ticks(M, 4)
      [] op = OP_HALT -> Z80_add_ticks(op_halt(M), 4)
      [] op = OP_DI   -> Z80_add_ticks(op_di(M), 4)
      [] op = OP_EI   -> Z80_add_ticks(op_ei(M), 4)
      [] op \in {PREFIX_CB, PREFIX_ED, PREFIX_DD, PREFIX_FD} -> op_prefix(M, op)
      [] op = OP_LD_A_N ->
            Only({Z80_add_ticks([n.M EXCEPT !.cpu.a = n.value], 7) :
                     n \in {fetch(M, FALSE, in.n1)}})
      [] op = OP_LD_A_MEM ->
            Only({Z80_add_ticks([r.M EXCEPT !.cpu.a = r.value], 13) :
                     r \in {Bus_read(a.M, a.value, FALSE, in.d1) :
                               a \in {fetch16(M, in.n1, in.n2)}}})
      [] op = OP_LD_MEM_A ->
            Only({Z80_add_ticks(Bus_write(a.M, a.value, a.M.cpu.a), 13) :
                     a \in {fetch16(M, in.n1, in.n2)}})
      [] op = OP_LD_SP_NN ->
            Only({Z80_add_ticks([a.M EXCEPT !.cpu.sp = a.value], 10) :
                     a \in {fetch16(M, in.n1, in.n2)}})
      [] op = OP_JP ->
            Only({Z80_add_ticks([a.M EXCEPT !.cpu.pc = a.value], 10) :
                     a \in {fetch16(M, in.n1, in.n2)}})
      [] op = OP_LD_C_L ->
            Z80_add_ticks([M EXCEPT !.cpu.bc =
                               Word(Hi(M.cpu.bc), Lo(M.cpu.hl))], 4)
      [] op = OP_LD_HL_NN ->
            Only({Z80_add_ticks([a.M EXCEPT !.cpu.hl = a.value], 10) :
                     a \in {fetch16(M, in.n1, in.n2)}})
      [] op = OP_RST38 -> op_rst(M, 56)
      [] op = OP_OUT_N_A ->
            Only({Z80_add_ticks(
                      [n.M EXCEPT !.bus = write_port(@, n.value, n.M.cpu.a)],
                      11) :
                     n \in {fetch(M, FALSE, in.n1)}})
      [] op = OP_IN_A_N ->
            Only({Z80_add_ticks(
                      [n.M EXCEPT !.cpu.a = read_port(n.M.bus, n.value)], 11) :
                     n \in {fetch(M, FALSE, in.n1)}})

\* The opcodes the model executes after each prefix: RETN, RETI, LDIR, LDDR,
\* LD IX/IY,nn and opcodes that have the bank's 4-tick handler (ED 00, ED ED
\* and DD/FD 00, DD and FD are the default handlers, CB 00 is RLC B).
EdOps == {ED_RETN, ED_RETI, ED_LDIR, ED_LDDR, 0, PREFIX_ED}
CbOps == {0}
DdOps == {0, OP_LD_HL_NN, PREFIX_DD, PREFIX_FD}
FdOps == {0, OP_LD_HL_NN, PREFIX_DD, PREFIX_FD}

\* Variant of the block transfer that repeats by rewinding PC by one byte.
op_block_ld_rewind_one(M, in, dir) ==
    LET Moved(r) ==
            [Bus_write(r.M, r.M.cpu.de, r.value)
                 EXCEPT !.cpu.hl = U16(@ + 65536 + dir),
                        !.cpu.de = U16(@ + 65536 + dir),
                        !.cpu.bc = U16(@ + 65535)]
        Repeat(W) ==
            IF W.cpu.bc # 0
            THEN Z80_add_ticks([W EXCEPT !.cpu.pc = U16(@ + 65535)], 17)
            ELSE Z80_add_ticks(W, 12)
    IN  Only({Repeat(Moved(r)) :
                 r \in {Bus_read(M, M.cpu.hl, FALSE, in.d1)}})

\* Variant of the block transfer that stops when BC has passed through zero:
\* it repeats only while BC is positive after the decrement taken as signed.
op_block_ld_no_wrap(M, in, dir) ==
    LET Moved(r) ==
            [Bus_write(r.M, r.M.cpu.de, r.value)
                 EXCEPT !.cpu.hl = U16(@ + 65536 + dir),
                        !.cpu.de = U16(@ + 65536 + dir),
                        !.cpu.bc = U16(@ + 65535)]
        Repeat(W) ==
            IF W.cpu.bc # 0 /\ W.cpu.bc < 32768
            THEN Z80_add_ticks([W EXCEPT !.cpu.pc = U16(@ + 65534)], 17)
            ELSE Z80_add_ticks(W, 12)
    IN  Only({Repeat(Moved(r)) :
                 r \in {Bus_read(M, M.cpu.hl, FALSE, in.d1)}})

\* ed_table[0xB0] (LDIR, dir = 1) and ed_table[0xB8] (LDDR, dir = -1);
\* the flags are not modelled
op_block_ld(M, in, dir) ==
    LET Moved(r) ==
            [Bus_write(r.M, r.M.cpu.de, r.value)
                 EXCEPT !.cpu.hl = U16(@ + 65536 + dir),
                        !.cpu.de = U16(@ + 65536 + dir),
                        !.cpu.bc = U16(@ + 65535)]
        Repeat(W) ==
            IF W.cpu.bc # 0
            THEN Z80_add_ticks([W EXCEPT !.cpu.pc = U16(@ + 65534)], 17)
            ELSE Z80_add_ticks(W, 12)
    IN  Only({Repeat(Moved(r)) :
                 r \in {Bus_read(M, M.cpu.hl, FALSE, in.d1)}})

\* Z80::init_ed_table: the handler ed_table[op]
ed_table(M, op, in) ==
    IF op \in {ED_RETN, ED_RETI} THEN op_retn(M, in)
    ELSE IF op = ED_LDIR THEN op_block_ld(M, in, 1)
    ELSE IF op = ED_LDDR THEN op_block_ld(M, in, -1)
    ELSE Z80_add_ticks(M, 4)

\* Z80::init_cb_table: the handler cb_table[op] (flags and B are not modelled)
cb_table(M, op, in) == Z80_add_ticks(M, 4)

\* Z80::init_dd_table: the handler dd_table[op]: LD IX,nn, else the default
\* handler, which DD DD and DD FD have too
dd_table(M, op, in) ==
    IF op = OP_LD_HL_NN
    THEN Only({Z80_add_ticks([a.M EXCEPT !.cpu.ix = a.value], 10) :
                  a \in {fetch16(M, in.n1, in.n2)}})
    ELSE Z80_add_ticks(M, 4)

\* Z80::init_fd_table: the handler fd_table[op]: LD IY,nn, else the default
\* handler, which FD DD and FD FD have too
fd_table(M, op, in) ==
    IF op = OP_LD_HL_NN
    THEN Only({Z80_add_ticks([a.M EXCEPT !.cpu.iy = a.value], 10) :
                  a \in {fetch16(M, in.n1, in.n2)}})
    ELSE Z80_add_ticks(M, 4)

\* The opcodes the model can decode in the current prefix state.
Decodable(prefix) ==
    CASE prefix = 0 -> MainOps
      [] prefix = PREFIX_CB -> CbOps
      [] prefix = PREFIX_ED -> EdOps
      [] prefix = PREFIX_DD -> DdOps
      [] prefix = PREFIX_FD -> FdOps

\* Z80::step, the prefixed branch
step_prefixed(M, in) ==
    LET p == M.cpu.prefix
        X(f) == CASE p = PREFIX_CB -> cb_table(f.M, f.value, in)
                  [] p = PREFIX_ED -> ed_table(f.M, f.value, in)
                  [] p = PREFIX_DD -> dd_table(f.M, f.value, in)
                  [] p = PREFIX_FD -> fd_table(f.M, f.value, in)
    IN  Only({[X(f) EXCEPT !.cpu.prefix = 0] : f \in {fetch(M, TRUE, in.op)}})

\* Z80::step, the halted branch
step_halted(M, in) ==
    Only({[Z80_add_ticks(f.M, 4) EXCEPT !.cpu.pc = U16(@ - 1)] :
             f \in {fetch(M, TRUE, in.op)}})

\* Z80::step, the main branch
step_main(M, in) ==
    Only({main_table(f.M, f.value, in) : f \in {fetch(M, TRUE, in.op)}})

\* Z80::step; the returned tick count is the cpu.t_states of the result
Z80_step(M, in) ==
    Only({IF Z.cpu.prefix # 0 THEN step_prefixed(Z, in)
          ELSE IF Z.cpu.halted THEN step_halted(Z, in)
          ELSE step_main(Z, in) : Z \in {[M EXCEPT !.cpu.t_states = 0]}})

\* The opcode byte that the M1 fetch of this step reads.
FetchedOp(M, in) == fetch(M, TRUE, in.op).value

\* Z80::reset
Z80_reset ==
    [pc |-> 0, sp |-> 65535, a |-> 0, bc |-> 0, de |-> 0, hl |-> 0,
     ix |-> 0, iy |-> 0, iff1 |-> FALSE, iff2 |-> FALSE,
     halted |-> FALSE, prefix |-> 0, t_states |-> 0]

-----------------------------------------------------------------------------
(* Frame driver                                                             *)

\* Variant of deliver_interrupt that leaves PC alone when it ends HALT.
deliver_interrupt_no_resume(M, fts, tot) ==
    IF ~interrupt_pending(M) \/ ~M.cpu.iff1
    THEN [M |-> M, frame_ts |-> fts, total_ticks |-> tot, accepted |-> FALSE]
    ELSE LET A   == [M EXCEPT !.bus = clear_interrupt(@),
                              !.cpu.iff2 = M.cpu.iff1,
                              !.cpu.iff1 = FALSE]
             B   == [A EXCEPT !.cpu.halted = FALSE]
             sp  == U16(B.cpu.sp - 2)
             ret == B.cpu.pc
             C   == Bus_write(B, sp, Lo(ret))
             D   == Bus_write(C, U16(sp + 1), Hi(ret))
             E   == [D EXCEPT !.cpu.sp = sp, !.cpu.pc = IM1_VECTOR,
                              !.bus = Bus_add_ticks(@, IM1_LATENCY)]
         IN  [M |-> E, frame_ts |-> fts + IM1_LATENCY,
              total_ticks |-> tot + IM1_LATENCY, accepted |-> TRUE]

\* Emulator::deliver_interrupt; accepted tells whether the early return was
\* not taken
deliver_interrupt(M, fts, tot) ==
    IF ~interrupt_pending(M) \/ ~M.cpu.iff1
    THEN [M |-> M, frame_ts |-> fts, total_ticks |-> tot, accepted |-> FALSE]
    ELSE LET A   == [M EXCEPT !.bus = clear_interrupt(@),
                              !.cpu.iff2 = M.cpu.iff1,
                              !.cpu.iff1 = FALSE]
             B   == IF A.cpu.halted
                    THEN [A EXCEPT !.cpu.halted = FALSE,
                                   !.cpu.pc = U16(@ + 1)]
                    ELSE A
             sp  == U16(B.cpu.sp - 2)
             ret == B.cpu.pc
             C   == Bus_write(B, sp, Lo(ret))
             D   == Bus_write(C, U16(sp + 1), Hi(ret))
             E   == [D EXCEPT !.cpu.sp = sp, !.cpu.pc = IM1_VECTOR,
                              !.bus = Bus_add_ticks(@, IM1_LATENCY)]
         IN  [M |-> E, frame_ts |-> fts + IM1_LATENCY,
              total_ticks |-> tot + IM1_LATENCY, accepted |-> TRUE]


-----------------------------------------------------------------------------
(* Key injector                                                             *)

ROM_KEY == 73
KEY_TICKS == 10

\* KeyInjector::enqueue, the bytes pushed for one character
enqueue_char(c) ==
    CASE c >= 97 /\ c <= 122 -> <<c - 32>>
      [] c = 10 -> <<13>>
      [] c = 13 -> << >>
      [] c >= 32 -> <<c>>
      [] OTHER -> << >>

\* KeyInjector::enqueue
RECURSIVE enqueue(_, _)
enqueue(q, text) ==
    IF text = << >> THEN q
    ELSE enqueue(q \o enqueue_char(Head(text)), Tail(text))

\* Variant of the intercept that takes the newest byte of the queue.
handle_intercept_newest(M, q, fts, pc, unk_lo, unk_hi) ==
    IF pc # ROM_KEY \/ q = << >>
    THEN [handled |-> FALSE, M |-> M, queue |-> q, frame_ts |-> fts]
    ELSE LET ch       == q[Len(q)]
             sp       == M.cpu.sp
             ret_addr == Word(Bus_peek(M, U16(sp + 1), unk_hi),
                              Bus_peek(M, sp, unk_lo))
         IN  [handled |-> TRUE,
              M |-> [M EXCEPT !.cpu.sp = U16(sp + 2),
                              !.cpu.pc = ret_addr,
                              !.cpu.a = ch,
                              !.bus = Bus_add_ticks(@, KEY_TICKS)],
              queue |-> SubSeq(q, 1, Len(q) - 1),
              frame_ts |-> fts + KEY_TICKS]

\* Variant of the intercept that leaves the frame's tick count alone.
handle_intercept_free(M, q, fts, pc, unk_lo, unk_hi) ==
    IF pc # ROM_KEY \/ q = << >>
    THEN [handled |-> FALSE, M |-> M, queue |-> q, frame_ts |-> fts]
    ELSE LET ch       == Head(q)
             sp       == M.cpu.sp
             ret_addr == Word(Bus_peek(M, U16(sp + 1), unk_hi),
                              Bus_peek(M, sp, unk_lo))
         IN  [handled |-> TRUE,
              M |-> [M EXCEPT !.cpu.sp = U16(sp + 2),
                              !.cpu.pc = ret_addr,
                              !.cpu.a = ch],
              queue |-> Tail(q),
              frame_ts |-> fts]

\* KeyInjector::handle_intercept
handle_intercept(M, q, fts, pc, unk_lo, unk_hi) ==
    IF pc # ROM_KEY \/ q = << >>
    THEN [handled |-> FALSE, M |-> M, queue |-> q, frame_ts |-> fts]
    ELSE LET ch       == Head(q)
             sp       == M.cpu.sp
             ret_addr == Word(Bus_peek(M, U16(sp + 1), unk_hi),
                              Bus_peek(M, sp, unk_lo))
         IN  [handled |-> TRUE,
              M |-> [M EXCEPT !.cpu.sp = U16(sp + 2),
                              !.cpu.pc = ret_addr,
                              !.cpu.a = ch,
                              !.bus = Bus_add_ticks(@, KEY_TICKS)],
              queue |-> Tail(q),
              frame_ts |-> fts + KEY_TICKS]

-----------------------------------------------------------------------------
(* State                                                                    *)

\* The machine as one record.
Machine == [cpu |-> cpu, bus |-> bus, fdc |-> fdc, mem |-> mem]

\* Size of a standard 35-track image file.
DISK_SIZE == MAX_TRACKS * SECTORS_PER_TRACK * BYTES_PER_SECTOR

\* FDC as constructed; drive 0 holds an image when --disk was given
\* (FDC::load_disk sets status_ to ST_TRACK0). History field: read_from_ is
\* the drive, track and sector that the last Read Sector filled buf_ from.
FDC_init(disk) ==
    [status_ |-> IF disk THEN ST_TRACK0 ELSE 0,
     track_ |-> 0, sector_ |-> 0, data_ |-> 0,
     drive_sel_ |-> 0, last_drive_ |-> 0,
     buf_ |-> [i \in 0..(BYTES_PER_SECTOR - 1) |-> 0],
     buf_pos_ |-> 0, buf_len_ |-> 0,
     write_pending_ |-> FALSE, write_track_ |-> 0, write_sector_ |-> 0,
     read_from_ |-> [drive |-> 0, track |-> 0, sector |-> 0],
     intrq_ |-> FALSE, last_dir_ |-> 1,
     drives |-> [d \in 0..(DRIVES - 1) |->
                   [loaded |-> disk /\ d = 0, head_track |-> 0,
                    size |-> IF disk /\ d = 0 THEN DISK_SIZE ELSE 0,
                    written |-> << >>]]]

\* The cells of the ROM array that the model follows: the reset vector, the
\* interrupt vector and the last ROM byte.
RomAddrs == {0, 56, ROM_END}

\* The byte of the loaded ROM image file at address a.
RomByte(a) == (a * 7 + 195) % 256

\* Bus::reset; line and t give the video position (0, 0 at cold boot);
\* rom is the ROM array on the followed cells, zero-filled.
\* History fields: wraps counts the scanline wraps 261 -> 0, reads and writes
\* are the sets of addresses passed to Bus::read and Bus::write by the
\* current operation.
Bus_reset(line, t) ==
    [global_t_states |-> line * VIDEO_T_STATES_PER_SCANLINE + t,
     current_scanline |-> line,
     t_states_in_scanline |-> t,
     int_pending |-> FALSE, int_for_latch |-> FALSE, iff_enabled |-> TRUE,
     rom |-> [a \in RomAddrs |-> 0],
     cas_state |-> "IDLE", cas_data |-> << >>, cas_playback_start_t |-> 0,
     cas_rec_data |-> << >>, cas_last_cycle_t |-> 0,
     cas_rec_cycle_count |-> 0, cas_rec_byte |-> 0, cas_rec_bit_count |-> 0,
     cas_prev_port_val |-> 0, cas_last_activity_t |-> 0,
     wraps |-> 0, reads |-> {}, writes |-> {}]

\* Bus::load_rom of an image that covers the followed cells
load_rom(b) == [b EXCEPT !.rom = [a \in DOMAIN @ |-> RomByte(a)]]

\* Bus::reset called on a bus in use: besides the fields of Bus_reset, the
\* shadow flags are cleared and VRAM and RAM are refilled, so no written
\* byte remains.
Bus_reset_call(M) == [M EXCEPT !.bus = Bus_reset(0, 0), !.mem = << >>]

\* Start of an operation: the access logs are emptied.
Begin(M) == [M EXCEPT !.bus.reads = {}, !.bus.writes = {}]

------------------------------------------------------------------------------
(* SoftwareLoader: file selection. File names are sequences of character    *)
(* codes.                                                                    *)

CH_DOT == 46

\* ::tolower on one character in the C locale
tolower(c) == IF c >= 65 /\ c <= 90 THEN c + 32 ELSE c

\* std::transform(s.begin(), s.end(), s.begin(), ::tolower)
ToLower(str) == [k \in 1..Len(str) |-> tolower(str[k])]

\* Index of the last '.' of a file name that starts its extension, 0 if the
\* name has none (a '.' in first position starts no extension).
ExtPos(name) ==
    LET dots == {k \in 2..Len(name) : name[k] = CH_DOT}
    IN  IF dots = {} THEN 0
        ELSE CHOOSE k \in dots : \A m \in dots : m <= k

\* fs::path::stem
stem(name) ==
    IF ExtPos(name) = 0 THEN name ELSE SubSeq(name, 1, ExtPos(name) - 1)

\* SoftwareLoader::file_ext: the extension with its dot, in lower case
file_ext(name) ==
    IF ExtPos(name) = 0 THEN << >>
    ELSE ToLower(SubSeq(name, ExtPos(name), Len(name)))

EXT_CAS == <<46, 99, 97, 115>>
EXT_BAS == <<46, 98, 97, 115>>

\* stem_lower.find(lower) == 0
StartsWith(str, pre) ==
    Len(pre) <= Len(str) /\ SubSeq(str, 1, Len(pre)) = pre

\* std::string operator<: the order std::sort puts the paths in
RECURSIVE StringLess(_, _)
StringLess(x, y) ==
    IF y = << >> THEN FALSE
    ELSE IF x = << >> THEN TRUE
    ELSE IF Head(x) # Head(y) THEN Head(x) < Head(y)
    ELSE StringLess(Tail(x), Tail(y))

\* The files of the directory that find_cas_file collects in matches
matches(dir, filename) ==
    {f \in dir : /\ file_ext(f) \in {EXT_CAS, EXT_BAS}
                 /\ (filename = << >>
                        \/ StartsWith(ToLower(stem(f)), ToLower(filename)))}

\* SoftwareLoader::find_cas_file on a software directory holding the regular
\* files dir: the name of the file picked, empty if none matches. All paths
\* start with "software/", so the paths sort as the names do.
find_cas_file(dir, filename) ==
    IF matches(dir, filename) = {} THEN << >>
    ELSE CHOOSE f \in matches(dir, filename) :
             \A g \in matches(dir, filename) : g = f \/ StringLess(f, g)

------------------------------------------------------------------------------
(* Debugger: freeze detector                                                *)

FREEZE_WINDOW == 64
FREEZE_TICKS == 3000000
FREEZE_STREAK == 100000
FREEZE_SPAN == 64

\* The freeze detector's members as constructed
Debugger0 ==
    [pc_window_ |-> [k \in 0..(FREEZE_WINDOW - 1) |-> 0], win_pos_ |-> 0,
     win_full_ |-> FALSE, ticks_acc_ |-> 0, dumped_ |-> FALSE,
     last_pc_ |-> 65535, streak_ |-> 0]

\* Least and greatest PC in the window
WindowLo(w) == CHOOSE p \in {w[k] : k \in DOMAIN w} :
                   \A k \in DOMAIN w : p <= w[k]
WindowHi(w) == CHOOSE p \in {w[k] : k \in DOMAIN w} :
                   \A k \in DOMAIN w : p >= w[k]

\* Variant of check_freeze without the latch.
check_freeze_unlatched(d, pc) ==
    LET A == IF pc = d.last_pc_ THEN [d EXCEPT !.streak_ = @ + 1]
             ELSE [d EXCEPT !.last_pc_ = pc, !.streak_ = 0]
        pos == (A.win_pos_ + 1) % FREEZE_WINDOW
        B == [A EXCEPT !.pc_window_[A.win_pos_] = pc, !.win_pos_ = pos,
                       !.win_full_ = @ \/ pos = 0]
        fast == B.streak_ > FREEZE_STREAK /\ pc >= RAM_START
        C == IF ~fast /\ B.win_full_
             THEN [B EXCEPT !.ticks_acc_ =
                      IF WindowLo(B.pc_window_) >= RAM_START
                            /\ WindowHi(B.pc_window_)
                                   - WindowLo(B.pc_window_) < FREEZE_SPAN
                      THEN @ + 4 ELSE 0]
             ELSE B
        tight == IF ~fast /\ B.win_full_
                 THEN C.ticks_acc_ >= FREEZE_TICKS ELSE fast
    IN  [d |-> IF tight THEN [C EXCEPT !.dumped_ = TRUE] ELSE C,
         tripped |-> tight]

\* Variant of check_freeze whose single-PC streak test leaves out the
\* comparison of the PC with the start of RAM.
check_freeze_any_pc(d, pc) ==
    IF d.dumped_ THEN [d |-> d, tripped |-> FALSE]
    ELSE
    LET A == IF pc = d.last_pc_ THEN [d EXCEPT !.streak_ = @ + 1]
             ELSE [d EXCEPT !.last_pc_ = pc, !.streak_ = 0]
        pos == (A.win_pos_ + 1) % FREEZE_WINDOW
        B == [A EXCEPT !.pc_window_[A.win_pos_] = pc, !.win_pos_ = pos,
                       !.win_full_ = @ \/ pos = 0]
        fast == B.streak_ > FREEZE_STREAK
        C == IF ~fast /\ B.win_full_
             THEN [B EXCEPT !.ticks_acc_ =
                      IF WindowLo(B.pc_window_) >= RAM_START
                            /\ WindowHi(B.pc_window_)
                                   - WindowLo(B.pc_window_) < FREEZE_SPAN
                      THEN @ + 4 ELSE 0]
             ELSE B
        tight == IF ~fast /\ B.win_full_
                 THEN C.ticks_acc_ >= FREEZE_TICKS ELSE fast
    IN  [d |-> IF tight THEN [C EXCEPT !.dumped_ = TRUE] ELSE C,
         tripped |-> tight]

\* Debugger::check_freeze; tripped is the value returned.
check_freeze(d, pc) ==
    IF d.dumped_ THEN [d |-> d, tripped |-> FALSE]
    ELSE
    LET A == IF pc = d.last_pc_ THEN [d EXCEPT !.streak_ = @ + 1]
             ELSE [d EXCEPT !.last_pc_ = pc, !.streak_ = 0]
        pos == (A.win_pos_ + 1) % FREEZE_WINDOW
        B == [A EXCEPT !.pc_window_[A.win_pos_] = pc, !.win_pos_ = pos,
                       !.win_full_ = @ \/ pos = 0]
        fast == B.streak_ > FREEZE_STREAK /\ pc >= RAM_START
        C == IF ~fast /\ B.win_full_
             THEN [B EXCEPT !.ticks_acc_ =
                      IF WindowLo(B.pc_window_) >= RAM_START
                            /\ WindowHi(B.pc_window_)
                                   - WindowLo(B.pc_window_) < FREEZE_SPAN
                      THEN @ + 4 ELSE 0]
             ELSE B
        tight == IF ~fast /\ B.win_full_
                 THEN C.ticks_acc_ >= FREEZE_TICKS ELSE fast
    IN  [d |-> IF tight THEN [C EXCEPT !.dumped_ = TRUE] ELSE C,
         tripped |-> tight]

\* The Emulator's members besides cpu_ and bus_ as constructed: an empty
\* keystroke queue, Normal speed, no SYSTEM load under way.
Emu0 ==
    [queue |-> << >>, user_speed_ |-> "NORMAL", cur_speed_ |-> "NORMAL",
     turbo_render_count_ |-> 0, t_budget |-> 0, sound_clears |-> 0,
     rendered |-> FALSE, system_active_ |-> FALSE, cload_active_ |-> FALSE,
     cload_realigned_ |-> FALSE, debugger_ |-> Debugger0]

TURBO_T_STATES == T_STATES_PER_FRAME * 100
TURBO_RENDER_EVERY == 10

\* KeyInjector::is_active
is_active(q) == q # << >>

\* Variant of run_select_speed that never discards the queued audio.
run_select_speed_keep_audio(e) ==
    LET desired == IF is_active(e.queue) THEN "TURBO" ELSE e.user_speed_
        A == IF desired # e.cur_speed_
             THEN [e EXCEPT !.cur_speed_ = desired,
                            !.turbo_render_count_ = 0]
             ELSE e
    IN  [A EXCEPT !.t_budget = IF A.cur_speed_ = "TURBO"
                               THEN TURBO_T_STATES ELSE T_STATES_PER_FRAME]

\* Emulator::run, from the top of the loop body to the call of step_frame:
\* the speed selection and the frame's budget. sound_clears counts the calls
\* of Sound::clear.
run_select_speed(e) ==
    LET desired == IF is_active(e.queue) THEN "TURBO" ELSE e.user_speed_
        A == IF desired # e.cur_speed_
             THEN [e EXCEPT !.sound_clears =
                                IF desired = "NORMAL" THEN @ + 1 ELSE @,
                            !.cur_speed_ = desired,
                            !.turbo_render_count_ = 0]
             ELSE e
    IN  [A EXCEPT !.t_budget = IF A.cur_speed_ = "TURBO"
                               THEN TURBO_T_STATES ELSE T_STATES_PER_FRAME]

\* Emulator::run after step_frame has returned: in Turbo every
\* TURBO_RENDER_EVERY-th frame is rendered.
run_frame_end(e) ==
    IF e.cur_speed_ = "NORMAL"
    THEN [e EXCEPT !.rendered = TRUE]
    ELSE [e EXCEPT !.turbo_render_count_ = @ + 1,
                   !.rendered = (e.turbo_render_count_ + 1)
                                    % TURBO_RENDER_EVERY = 0]

------------------------------------------------------------------------------
(* SoftwareLoader: SYSTEM fast-load                                         *)

ROM_SYSTEM_ENTRY == 718
SYS_SYNC == 165
SYS_TYPE == 85
SYS_NAME_LEN == 6
SYS_BLOCK == 60
SYS_EOF == 120

\* for (j = lo; j < hi; j++) bus.write(load_addr + j, buf[i + j]); i is the
\* 0-based index in buf of the block's first data byte. The range is done
\* as its lower half followed by its upper half, which is the same sequence
\* of writes.
RECURSIVE write_block(_, _, _, _, _, _)
write_block(M, buf, i, load_addr, lo, hi) ==
    IF lo >= hi THEN M
    ELSE IF hi - lo = 1
    THEN Bus_write(M, U16(load_addr + lo), buf[i + lo + 1])
    ELSE Only({write_block(W, buf, i, load_addr, (lo + hi) \div 2, hi) :
                  W \in {write_block(M, buf, i, load_addr, lo,
                                     (lo + hi) \div 2)}})

\* for (j = lo; j < hi; j++) cksum = (cksum + buf[i + j]) & 0xFF, in halves
\* likewise
RECURSIVE block_cksum(_, _, _, _, _)
block_cksum(buf, i, lo, hi, cksum) ==
    IF lo >= hi THEN cksum
    ELSE IF hi - lo = 1 THEN U8(cksum + buf[i + lo + 1])
    ELSE Only({block_cksum(buf, i, (lo + hi) \div 2, hi, c) :
                  c \in {block_cksum(buf, i, lo, (lo + hi) \div 2, cksum)}})

\* Variant of sys_blocks that gives up on a block whose checksum is wrong.
RECURSIVE sys_blocks_strict(_, _, _, _)
sys_blocks_strict(M, buf, i, errs) ==
    IF i >= Len(buf) THEN [ok |-> FALSE, M |-> M, cksum_errors |-> errs]
    ELSE IF buf[i + 1] = SYS_BLOCK
    THEN IF i + 1 + 3 > Len(buf)
         THEN [ok |-> FALSE, M |-> M, cksum_errors |-> errs]
         ELSE \* count, load_lo, load_hi are buf[i+2], buf[i+3], buf[i+4]
              LET n == IF buf[i + 2] = 0 THEN 256 ELSE buf[i + 2]
                  load_addr == Word(buf[i + 4], buf[i + 3])
                  d == i + 4
              IN  IF d + n + 1 > Len(buf)
                  THEN [ok |-> FALSE, M |-> M, cksum_errors |-> errs]
                  ELSE IF block_cksum(buf, d, 0, n,
                                      U8(buf[i + 4] + buf[i + 3]))
                              # buf[d + n + 1]
                  THEN [ok |-> FALSE, M |-> M, cksum_errors |-> errs + 1]
                  ELSE sys_blocks_strict(
                           write_block(M, buf, d, load_addr, 0, n),
                           buf, d + n + 1, errs)
    ELSE IF buf[i + 1] = SYS_EOF
    THEN IF i + 1 + 2 > Len(buf)
         THEN [ok |-> FALSE, M |-> M, cksum_errors |-> errs]
         ELSE [ok |-> TRUE,
               M |-> [M EXCEPT !.cpu.pc = Word(buf[i + 3], buf[i + 2])],
               cksum_errors |-> errs]
    ELSE [ok |-> FALSE, M |-> M, cksum_errors |-> errs]

\* SoftwareLoader::load_system_cas, the loop over the blocks from the
\* 0-based index i of buf on. cksum_errors counts the checksum messages.
RECURSIVE sys_blocks(_, _, _, _)
sys_blocks(M, buf, i, errs) ==
    IF i >= Len(buf) THEN [ok |-> FALSE, M |-> M, cksum_errors |-> errs]
    ELSE IF buf[i + 1] = SYS_BLOCK
    THEN IF i + 1 + 3 > Len(buf)
         THEN [ok |-> FALSE, M |-> M, cksum_errors |-> errs]
         ELSE \* count, load_lo, load_hi are buf[i+2], buf[i+3], buf[i+4]
              LET n == IF buf[i + 2] = 0 THEN 256 ELSE buf[i + 2]
                  load_addr == Word(buf[i + 4], buf[i + 3])
                  d == i + 4
              IN  IF d + n + 1 > Len(buf)
                  THEN [ok |-> FALSE, M |-> M, cksum_errors |-> errs]
                  ELSE sys_blocks(
                           write_block(M, buf, d, load_addr, 0, n),
                           buf, d + n + 1,
                           IF block_cksum(buf, d, 0, n,
                                          U8(buf[i + 4] + buf[i + 3]))
                                  # buf[d + n + 1]
                           THEN errs + 1 ELSE errs)
    ELSE IF buf[i + 1] = SYS_EOF
    THEN IF i + 1 + 2 > Len(buf)
         THEN [ok |-> FALSE, M |-> M, cksum_errors |-> errs]
         ELSE [ok |-> TRUE,
               M |-> [M EXCEPT !.cpu.pc = Word(buf[i + 3], buf[i + 2])],
               cksum_errors |-> errs]
    ELSE [ok |-> FALSE, M |-> M, cksum_errors |-> errs]

\* while (i < buf.size() && buf[i] == 0x00) i++
RECURSIVE skip_leader(_, _)
skip_leader(buf, i) ==
    IF i < Len(buf) /\ buf[i + 1] = 0 THEN skip_leader(buf, i + 1) ELSE i

\* Variant of load_system_cas that accepts any type byte after the sync.
load_system_cas_any_type(M, buf) ==
    LET i == skip_leader(buf, 0)
        Fail == [ok |-> FALSE, M |-> M, cksum_errors |-> 0]
    IN  IF i >= Len(buf) \/ buf[i + 1] # SYS_SYNC THEN Fail
        ELSE IF i + 2 + SYS_NAME_LEN > Len(buf) THEN Fail
        ELSE sys_blocks(M, buf, i + 2 + SYS_NAME_LEN, 0)

\* SoftwareLoader::load_system_cas on a file of content buf
load_system_cas(M, buf) ==
    LET i == skip_leader(buf, 0)
        Fail == [ok |-> FALSE, M |-> M, cksum_errors |-> 0]
    IN  IF i >= Len(buf) \/ buf[i + 1] # SYS_SYNC THEN Fail
        ELSE IF i + 1 >= Len(buf) \/ buf[i + 2] # SYS_TYPE THEN Fail
        ELSE IF i + 2 + SYS_NAME_LEN > Len(buf) THEN Fail
        ELSE sys_blocks(M, buf, i + 2 + SYS_NAME_LEN, 0)

\* SoftwareLoader::on_system_entry; file is what find_cas_file found:
\* found is FALSE when it returned no path, else buf is the file's content.
on_system_entry(pc, M, e, file) ==
    IF pc # ROM_SYSTEM_ENTRY
    THEN [M |-> M, emu |-> e, fired |-> FALSE, ok |-> FALSE,
          cksum_errors |-> 0]
    ELSE IF ~file.found
    THEN [M |-> M, emu |-> [e EXCEPT !.system_active_ = TRUE],
          fired |-> TRUE, ok |-> FALSE, cksum_errors |-> 0]
    ELSE Only({[M |-> r.M, emu |-> [e EXCEPT !.system_active_ = ~r.ok],
                fired |-> TRUE, ok |-> r.ok,
                cksum_errors |-> r.cksum_errors] :
                  r \in {load_system_cas(M, file.buf)}})

ROM_SYNC_SEARCH == 659
ROM_BASIC_READY == 6681

\* "NEW\n"
TEXT_NEW == <<78, 69, 87, 10>>

\* KeyInjector::load_bas on a file that opens; lines are the lines of the
\* file as std::getline returns them.
RECURSIVE load_bas_lines(_, _)
load_bas_lines(q, lines) ==
    IF lines = << >> THEN q
    ELSE LET raw  == Head(lines)
             line == IF raw # << >> /\ raw[Len(raw)] = 13
                     THEN SubSeq(raw, 1, Len(raw) - 1) ELSE raw
         IN  load_bas_lines(IF line # << >> THEN enqueue(q, line \o <<10>>)
                            ELSE q,
                            Tail(lines))

load_bas(q, lines) == load_bas_lines(enqueue(q, TEXT_NEW), lines)

\* Variant of on_cload_entry that skips without clearing system_active_.
on_cload_entry_skip_kept(pc, M, e, file) ==
    IF pc # ROM_SYNC_SEARCH \/ M.bus.cas_state # "IDLE"
    THEN [M |-> M, emu |-> e, fired |-> FALSE, skipped |-> FALSE]
    ELSE IF e.system_active_
    THEN [M |-> M, emu |-> e, fired |-> TRUE, skipped |-> TRUE]
    ELSE IF ~file.found
    THEN [M |-> M, emu |-> e, fired |-> TRUE, skipped |-> FALSE]
    ELSE IF file.bas
    THEN [M |-> [M EXCEPT !.cpu.pc = ROM_BASIC_READY],
          emu |-> [e EXCEPT !.queue = load_bas(@, file.lines)],
          fired |-> TRUE, skipped |-> FALSE]
    ELSE [M |-> [M EXCEPT !.bus = start_playback(load_cas_file(@, file.data))],
          emu |-> [e EXCEPT !.cload_active_ = TRUE,
                            !.cload_realigned_ = FALSE],
          fired |-> TRUE, skipped |-> FALSE]

\* SoftwareLoader::on_cload_entry; file is what the autoload path or
\* find_cas_file resolves to: found is FALSE when there is no path, bas tells
\* a .bas file (lines) from a cassette image (data).
on_cload_entry(pc, M, e, file) ==
    IF pc # ROM_SYNC_SEARCH \/ M.bus.cas_state # "IDLE"
    THEN [M |-> M, emu |-> e, fired |-> FALSE, skipped |-> FALSE]
    ELSE IF e.system_active_
    THEN [M |-> M, emu |-> [e EXCEPT !.system_active_ = FALSE],
          fired |-> TRUE, skipped |-> TRUE]
    ELSE IF ~file.found
    THEN [M |-> M, emu |-> e, fired |-> TRUE, skipped |-> FALSE]
    ELSE IF file.bas
    THEN [M |-> [M EXCEPT !.cpu.pc = ROM_BASIC_READY],
          emu |-> [e EXCEPT !.queue = load_bas(@, file.lines)],
          fired |-> TRUE, skipped |-> FALSE]
    ELSE [M |-> [M EXCEPT !.bus = start_playback(load_cas_file(@, file.data))],
          emu |-> [e EXCEPT !.cload_active_ = TRUE,
                            !.cload_realigned_ = FALSE],
          fired |-> TRUE, skipped |-> FALSE]

NoEvent(M) == [kind |-> "init", pre |-> M, ticks |-> 0]

Frame0(c) == [n |-> 0, accepts |-> 0, cpu0 |-> c]

-----------------------------------------------------------------------------
(* Bounds and input sets                                                    *)

\* Loop iterations of step_frame explored by Spec.
MaxIter == 4

\* Loop iterations of step_frame explored by SpecIO.
MaxIoIter == 4

\* Video positions at which Spec and SpecIO start: cold boot, just before
\* the contention window of the first visible line, and one and two
\* instructions before the end of the last line.
StartPositions == {<<0, 0>>, <<48, 20>>, <<261, 106>>, <<261, 110>>}

\* Immediate operand of LD A,n: the FDC command Force Interrupt without bit 3
\* (register A is 0 at reset, the FDC command Restore).
ImmVals == {208}

\* Addresses read by LD A,(nn): IRQ latch and a mirror, FDC status and data
\* registers, a RAM cell.
LoadAddrs == {14304, 14305, 14316, 14319, 16384}

\* Addresses written by LD (nn),A: drive select, FDC command and track
\* registers, a RAM cell.
StoreAddrs == {14304, 14316, 14317, 16384}

\* Operands of LD SP,nn: a stack in the ROM shadow that wraps below 0, a
\* stack in unmapped space (the reset value 0xFFFF is a stack in RAM).
StackTops == {1, 12290}

\* Operands of JP nn: VRAM, the last address.
JumpTargets == {15360, 65535}

\* Return addresses found on a stack that the run did not write.
RetTargets == {16384}

\* Content of a RAM cell that the run did not write.
DataVals == {0}

NoIn == [op |-> 0, n1 |-> 0, n2 |-> 0, d1 |-> 0, d2 |-> 0]

WithAddr(op, a) == [NoIn EXCEPT !.op = op, !.n1 = Lo(a), !.n2 = Hi(a)]

\* Instructions of Spec: interrupt control, HALT, prefixes, stack and jumps.
MainInputs ==
    {[NoIn EXCEPT !.op = o] :
        o \in {OP_NOP, OP_HALT, OP_DI, OP_EI,
               PREFIX_CB, PREFIX_ED, PREFIX_DD, PREFIX_FD}}
    \cup {WithAddr(OP_LD_SP_NN, a) : a \in StackTops}
    \cup {WithAddr(OP_JP, a) : a \in JumpTargets}

EdInputs ==
    {[NoIn EXCEPT !.op = o, !.d1 = Lo(t), !.d2 = Hi(t)] :
        o \in {ED_RETN, ED_RETI}, t \in RetTargets}
    \cup {NoIn}

\* The bytes a step of Spec can find in memory cells the run did not write.
InputsFor(c) ==
    IF c.prefix = PREFIX_ED THEN EdInputs
    ELSE IF c.prefix # 0 \/ c.halted THEN {NoIn}
    ELSE MainInputs

\* Instructions of SpecIO: EI, NOP and loads and stores of the memory-mapped
\* registers.
IoInputs ==
    {[NoIn EXCEPT !.op = o] : o \in {OP_NOP, OP_EI}}
    \cup {[NoIn EXCEPT !.op = OP_LD_A_N, !.n1 = n] : n \in ImmVals}
    \cup {[WithAddr(OP_LD_A_MEM, a) EXCEPT !.d1 = d] :
             a \in LoadAddrs, d \in DataVals}
    \cup {WithAddr(OP_LD_MEM_A, a) : a \in StoreAddrs}

-----------------------------------------------------------------------------
(* Spec: the step_frame loop body on an arbitrary instruction stream        *)

Init ==
    /\ cpu = Z80_reset
    /\ \E p \in StartPositions : bus = Bus_reset(p[1], p[2])
    /\ \E disk \in BOOLEAN : fdc = FDC_init(disk)
    /\ mem = << >>
    /\ frame_ts = 0
    /\ total_ticks = 0
    /\ phase = "step"
    /\ iter = 0
    /\ frame = Frame0(cpu)
    /\ ev = NoEvent(Machine)
    /\ tape = Bus_reset(0, 0)
    /\ emu = Emu0

\* Emulator::step_frame, loop body up to the call of deliver_interrupt:
\* cpu_.step(), bus_.add_ticks(ticks), frame_ts += ticks, total_ticks_ += ticks
StepFrame_step(in) ==
    \E S \in {Z80_step(Begin(Machine), in)} :
    LET ticks == S.cpu.t_states
    IN  /\ cpu' = S.cpu
        /\ bus' = Bus_add_ticks(S.bus, ticks)
        /\ fdc' = S.fdc
        /\ mem' = S.mem
        /\ frame_ts' = frame_ts + ticks
        /\ total_ticks' = total_ticks + ticks
        /\ phase' = "deliver"
        /\ ev' = [kind |-> "step", pre |-> Machine, ticks |-> ticks]
        /\ UNCHANGED <<tape, emu>>

\* Emulator::step_frame, the call deliver_interrupt(frame_ts) and the end of
\* the loop body
StepFrame_deliver ==
    /\ phase = "deliver"
    /\ \E r \in {deliver_interrupt(Begin(Machine), frame_ts, total_ticks)} :
        /\ cpu' = r.M.cpu
        /\ bus' = autostop_cassette(r.M.bus)
        /\ fdc' = r.M.fdc
        /\ mem' = r.M.mem
        /\ frame_ts' = r.frame_ts
        /\ total_ticks' = r.total_ticks
        /\ phase' = "step"
        /\ frame' = IF r.accepted THEN [frame EXCEPT !.accepts = @ + 1]
                    ELSE frame
        /\ ev' = [kind |-> IF r.accepted THEN "accept" ELSE "noaccept",
                  pre |-> Machine,
                  ticks |-> r.frame_ts - frame_ts]
        /\ UNCHANGED <<iter, tape, emu>>

\* One CPU step on any instruction the model decodes.
CpuStep ==
    /\ phase = "step"
    /\ iter < MaxIter
    /\ \E in \in InputsFor(cpu) :
          /\ (cpu.prefix # 0 \/ ~cpu.halted) =>
                 FetchedOp(Machine, in) \in Decodable(cpu.prefix)
          /\ StepFrame_step(in)
    /\ iter' = iter + 1
    /\ UNCHANGED frame

Next == CpuStep \/ StepFrame_deliver

Spec == Init /\ [][Next]_vars

-----------------------------------------------------------------------------
(* SpecIO: the step_frame loop body on programs that access the             *)
(* memory-mapped interrupt latch and FDC registers                          *)

IoStep ==
    /\ phase = "step"
    /\ iter < MaxIoIter
    /\ \E in \in IoInputs : StepFrame_step(in)
    /\ iter' = iter + 1
    /\ UNCHANGED frame

NextIO == IoStep \/ StepFrame_deliver

SpecIO == Init /\ [][NextIO]_vars

-----------------------------------------------------------------------------
(* SpecFrame: whole frames from cold boot with the memory as Bus::reset     *)
(* leaves it (ROM and RAM filled with 0x00, so every fetch reads a NOP),    *)
(* but for the first ROM byte                                               *)

\* Wall frames run by SpecFrame.
MaxFrames == 2

\* The first byte of the ROM image: NOP, or EI to run with interrupts enabled.
BootOps == {OP_NOP, OP_EI}

InitFrame ==
    /\ cpu = Z80_reset
    /\ bus = Bus_reset(0, 0)
    /\ fdc = FDC_init(FALSE)
    /\ \E b \in BootOps : mem = (0 :> b)
    /\ frame_ts = 0
    /\ total_ticks = 0
    /\ phase = "step"
    /\ iter = 0
    /\ frame = Frame0(cpu)
    /\ ev = NoEvent(Machine)
    /\ tape = Bus_reset(0, 0)
    /\ emu = Emu0

\* while (frame_ts < t_budget) { ... cpu_.step() ... }
FrameStep ==
    /\ phase = "step"
    /\ frame.n < MaxFrames
    /\ frame_ts < T_STATES_PER_FRAME
    /\ StepFrame_step(NoIn)
    /\ UNCHANGED <<iter, frame>>

\* step_frame returns when frame_ts >= t_budget; Emulator::run calls it again
FrameEnd ==
    /\ phase = "step"
    /\ frame.n < MaxFrames
    /\ frame_ts >= T_STATES_PER_FRAME
    /\ frame_ts' = 0
    /\ frame' = [n |-> frame.n + 1, accepts |-> 0, cpu0 |-> cpu]
    /\ ev' = [kind |-> "frame", pre |-> Machine, ticks |-> frame_ts]
    /\ UNCHANGED <<cpu, bus, fdc, mem, total_ticks, phase, iter, tape, emu>>

NextFrame == FrameStep \/ StepFrame_deliver \/ FrameEnd

SpecFrame == InitFrame /\ [][NextFrame]_vars

-----------------------------------------------------------------------------
(* SpecFDC: a program's reads and writes of the memory-mapped registers     *)
(* 0x37E0-0x37EF, through Bus::read and Bus::write                          *)

\* Register accesses explored by SpecFDC, not counting the data-register
\* accesses that move the bytes of a transfer in progress.
MaxFdcOps == 3

\* Command bytes: Restore, Seek, Step-in with update, Read Sector,
\* Write Sector, Read Address, Force Interrupt without and with bit 3, and
\* Read Track (0xE8, which has bit 3 set).
FdcCmds == {0, 16, 80, 128, 160, 192, 208, 216, 232}

\* Values written to the track, sector and data registers: a valid sector
\* and track number, and one beyond both ranges.
RegVals == {9, 40}

\* Values written to the drive-select latch: drive 0, drive 1, a deselect,
\* a deselect with the side-select bit 3 set.
SelectVals == {1, 2, 0, 8}

\* The byte a program writes at position pos of a Write Sector transfer.
SectorPattern(pos) == (pos * 3 + 5) % 256

FdcRegs == {FDC_STATUS, FDC_TRACK, FDC_SECTOR, FDC_DATA}

InTransfer == fdc.buf_len_ > 0 /\ fdc.buf_pos_ < fdc.buf_len_

\* A program touches the other registers in the middle of a transfer only
\* within EdgeBytes bytes of the transfer's start or end.
EdgeBytes == 1

AtEdge ==
    \/ ~InTransfer
    \/ fdc.buf_pos_ < EdgeBytes
    \/ fdc.buf_len_ - fdc.buf_pos_ <= EdgeBytes

InitFDC ==
    /\ cpu = Z80_reset
    /\ bus = Bus_reset(0, 0)
    /\ \E disk \in BOOLEAN : fdc = FDC_init(disk)
    /\ mem = << >>
    /\ frame_ts = 0
    /\ total_ticks = 0
    /\ phase = "step"
    /\ iter = 0
    /\ frame = Frame0(cpu)
    /\ ev = NoEvent(Machine)
    /\ tape = Bus_reset(0, 0)
    /\ emu = Emu0

\* The values a program may write to register addr in the current state.
WriteVals(addr) ==
    CASE addr = FDC_STATUS -> FdcCmds
      [] addr = FDC_DATA /\ fdc.write_pending_ /\ InTransfer ->
            {SectorPattern(fdc.buf_pos_)}
      [] addr = IRQ_LATCH_START -> SelectVals
      [] OTHER -> RegVals

\* Does this access move a byte of the transfer in progress?
MovesByte(addr, isWrite) ==
    addr = FDC_DATA /\ InTransfer /\ (isWrite <=> fdc.write_pending_)

RegAccess(r, kind, addr, val, counted) ==
    /\ fdc' = r.fdc
    /\ bus' = r.bus
    /\ mem' = r.mem
    /\ iter' = IF counted THEN iter + 1 ELSE iter
    /\ ev' = [kind |-> kind, pre |-> Machine, ticks |-> 0,
              addr |-> addr, val |-> val]
    /\ UNCHANGED <<cpu, frame_ts, total_ticks, phase, frame, tape, emu>>

\* Bus::read of a register address
RegRead ==
    \E addr \in FdcRegs \cup {IRQ_LATCH_START} :
        LET r == Bus_read(Begin(Machine), addr, FALSE, 0)
        IN  /\ MovesByte(addr, FALSE) \/ (iter < MaxFdcOps /\ AtEdge)
            /\ RegAccess(r.M, "read", addr, r.value, ~MovesByte(addr, FALSE))

\* Bus::write of a register address
RegWrite ==
    \E addr \in FdcRegs \cup {IRQ_LATCH_START} :
        \E val \in WriteVals(addr) :
            /\ MovesByte(addr, TRUE) \/ (iter < MaxFdcOps /\ AtEdge)
            /\ RegAccess(Bus_write(Begin(Machine), addr, val), "write",
                         addr, val, ~MovesByte(addr, TRUE))

NextFDC == RegRead \/ RegWrite

SpecFDC == InitFDC /\ [][NextFDC]_vars

-----------------------------------------------------------------------------
(* Memory: Bus::read, Bus::peek and Bus::write on ROM, VRAM and RAM cells   *)

\* Number of memory operations followed.
MaxMemOps == 4

\* Addresses accessed: the followed ROM cells and one RAM cell.
MemAddrs == RomAddrs \cup {RAM_START}

\* Bytes written: zero, the ROM image's byte 0, and one other.
MemVals == {0, RomByte(0), 7}

\* What a cell holds when the program has not written it: the ROM array's
\* byte, a space in VRAM, zero in RAM (Bus::reset fills).
Unwritten(b, a) ==
    CASE a <= ROM_END -> b.rom[a]
      [] a >= VRAM_START /\ a <= VRAM_END -> 32
      [] OTHER -> 0

InitMem ==
    /\ cpu = Z80_reset
    /\ bus = load_rom(Bus_reset(0, 0))
    /\ fdc = FDC_init(FALSE)
    /\ mem = << >>
    /\ frame_ts = 0
    /\ total_ticks = 0
    /\ phase = "step"
    /\ iter = 0
    /\ frame = Frame0(cpu)
    /\ ev = [kind |-> "init", pre |-> Machine, ticks |-> 0,
             addr |-> 0, val |-> 0, last |-> << >>]
    /\ tape = Bus_reset(0, 0)
    /\ emu = Emu0

\* ev.last records, per address, the byte of the latest Bus::write since
\* the bus was last reset.
MemAccess(M, kind, addr, val, last) ==
    /\ iter < MaxMemOps
    /\ iter' = iter + 1
    /\ bus' = M.bus
    /\ fdc' = M.fdc
    /\ mem' = M.mem
    /\ ev' = [kind |-> kind, pre |-> Machine, ticks |-> 0,
              addr |-> addr, val |-> val, last |-> last]
    /\ UNCHANGED <<cpu, frame_ts, total_ticks, phase, frame, tape, emu>>

MemRead ==
    \E addr \in MemAddrs :
        \E r \in {Bus_read(Begin(Machine), addr, FALSE, Unwritten(bus, addr))} :
            MemAccess(r.M, "read", addr, r.value, ev.last)

MemPeek ==
    \E addr \in MemAddrs :
        MemAccess(Begin(Machine), "peek", addr,
                  Bus_peek(Machine, addr, Unwritten(bus, addr)), ev.last)

MemWrite ==
    \E addr \in MemAddrs, val \in MemVals :
        MemAccess(Bus_write(Begin(Machine), addr, val), "write", addr, val,
                  (addr :> val) @@ ev.last)

MemReset ==
    MemAccess(Bus_reset_call(Machine), "reset", 0, 0, << >>)

NextMem == MemRead \/ MemPeek \/ MemWrite

SpecMem == InitMem /\ [][NextMem]_vars

NextMemReset == MemRead \/ MemPeek \/ MemWrite \/ MemReset

SpecMemReset == InitMem /\ [][NextMemReset]_vars

-----------------------------------------------------------------------------
(* SpecCas: the playback waveform of one machine fed to the recording       *)
(* decoder of another                                                       *)

\* Longest byte sequence played.
MaxCasBytes == 2

\* Bytes on the tape: all zeros, all ones, the sync byte 0xA5 and 0x54.
CasBytes == {0, 255, 165, 84}

CasData == UNION {[1..n -> CasBytes] : n \in 1..MaxCasBytes}

\* Bus time at which playback and recording start.
CasStartTimes == {0, 2661}

\* t ticks pass on bus b: the sum of the add_ticks calls on the tick counter
\* (the video position is not followed here).
Elapse(b, t) == [b EXCEPT !.global_t_states = @ + t]

\* Ticks of the waveform that encode the bytes of the tape: the lead-in and
\* one bit period per bit.
WaveLength(b) == CAS_HALF_0 + Len(b.cas_data) * 8 * CAS_BIT_PERIOD

InitCas ==
    /\ cpu = Z80_reset
    /\ \E t0 \in CasStartTimes, data \in CasData :
          /\ bus = start_recording(Elapse(Bus_reset(0, 0), t0))
          /\ tape = start_playback(
                        load_cas_file(Elapse(Bus_reset(0, 0), t0), data))
    /\ fdc = FDC_init(FALSE)
    /\ mem = << >>
    /\ frame_ts = 0
    /\ total_ticks = 0
    /\ phase = "step"
    /\ iter = 0
    /\ frame = Frame0(cpu)
    /\ ev = NoEvent(Machine)
    /\ emu = Emu0

\* The waveform is constant between multiples of CAS_HALF_1 ticks from the
\* start of playback (lead-in, bit period and both half-periods are
\* multiples of it), so its level is copied to bit 0 of the recorder's port
\* 0xFF once per CAS_HALF_1 ticks: the write that follows a rising edge of
\* the waveform happens at the tick of that edge.
CasSample ==
    /\ bus.cas_state = "RECORDING"
    /\ tape.global_t_states + CAS_HALF_1 - tape.cas_playback_start_t
           < WaveLength(tape)
    /\ \E T \in {Elapse(tape, CAS_HALF_1)} :
          /\ tape' = T
          /\ bus' = write_port(Elapse(bus, CAS_HALF_1), CAS_PORT,
                               IF read_port(T, CAS_PORT) >= 128 THEN 1 ELSE 0)
    /\ ev' = [kind |-> "sample", pre |-> Machine, ticks |-> CAS_HALF_1]
    /\ UNCHANGED <<cpu, fdc, mem, frame_ts, total_ticks, phase, iter, frame,
                   emu>>

\* The waveform of the tape's bytes has ended: the recording is stopped.
CasFinish ==
    /\ bus.cas_state = "RECORDING"
    /\ tape.global_t_states + CAS_HALF_1 - tape.cas_playback_start_t
           >= WaveLength(tape)
    /\ bus' = stop_cassette(bus)
    /\ ev' = [kind |-> "finish", pre |-> Machine, ticks |-> 0]
    /\ UNCHANGED <<cpu, fdc, mem, frame_ts, total_ticks, phase, iter, frame,
                   tape, emu>>

NextCas == CasSample \/ CasFinish

SpecCas == InitCas /\ [][NextCas]_vars

-----------------------------------------------------------------------------
(* SpecIdle: a loop that polls port 0xFF while no cassette is playing       *)

\* Loop iterations of step_frame explored by SpecIdle.
MaxPolls == 100

\* Bus time (scanline, tick in line) at which the polling starts: cold boot
\* and a point 508 ticks before a multiple of 1,000.
IdleStarts == {<<0, 0>>, <<48, 20>>}

\* IN A,(0xFF) and OUT (0xFF),A
InPort == [NoIn EXCEPT !.op = OP_IN_A_N, !.n1 = CAS_PORT]
OutPort == [NoIn EXCEPT !.op = OP_OUT_N_A, !.n1 = CAS_PORT]

\* One iteration of the loop in Emulator::step_frame on machine M: cpu_.step,
\* bus_.add_ticks, the tick counters, deliver_interrupt and the cassette
\* auto-stop poll.
LoopBody(M, fts, tot, in) ==
    LET Deliver(A, ticks) ==
            Only({[M |-> [r.M EXCEPT !.bus = autostop_cassette(@)],
                   frame_ts |-> r.frame_ts, total_ticks |-> r.total_ticks,
                   ticks |-> ticks] :
                     r \in {deliver_interrupt(A, fts + ticks, tot + ticks)}})
    IN  Only({Deliver([S EXCEPT !.bus = Bus_add_ticks(@, S.cpu.t_states)],
                      S.cpu.t_states) :
                 S \in {Z80_step(Begin(M), in)}})

\* The result r of LoopBody becomes the state.
Looped(r) ==
    /\ cpu' = r.M.cpu
    /\ bus' = r.M.bus
    /\ fdc' = r.M.fdc
    /\ mem' = r.M.mem
    /\ frame_ts' = r.frame_ts
    /\ total_ticks' = r.total_ticks
    /\ iter' = iter + 1
    /\ UNCHANGED <<phase, frame, tape, emu>>

\* History of the polling loop: level is the input level of the last poll,
\* wait the ticks from the first poll of the current run of equal levels to
\* the last poll, gap the ticks since the last poll, toggles the number of
\* level changes seen.
InitIdle ==
    /\ cpu = Z80_reset
    /\ \E p \in IdleStarts, rec \in BOOLEAN :
          bus = IF rec THEN start_recording(Bus_reset(p[1], p[2]))
                ELSE Bus_reset(p[1], p[2])
    /\ fdc = FDC_init(FALSE)
    /\ mem = << >>
    /\ frame_ts = 0
    /\ total_ticks = 0
    /\ phase = "step"
    /\ iter = 0
    /\ frame = Frame0(cpu)
    /\ ev = [kind |-> "init", pre |-> Machine, ticks |-> 0,
             level |-> FALSE, wait |-> 0, gap |-> 0, toggles |-> 0]
    /\ tape = Bus_reset(0, 0)
    /\ emu = Emu0

\* The loop executes IN A,(0xFF).
PollIter ==
    /\ iter < MaxPolls
    /\ \E r \in {LoopBody(Machine, frame_ts, total_ticks, InPort)} :
          /\ Looped(r)
          /\ \E lv \in {r.M.cpu.a >= 128} :
                ev' = [kind |-> "poll", pre |-> Machine, ticks |-> r.ticks,
                       level |-> lv,
                       wait |-> IF ev.kind # "init" /\ lv = ev.level
                                THEN ev.wait + ev.gap ELSE 0,
                       gap |-> r.ticks,
                       toggles |-> IF ev.kind # "init" /\ lv # ev.level
                                   THEN ev.toggles + 1 ELSE ev.toggles]

\* The loop executes one other instruction between two polls.
DelayIter ==
    /\ iter < MaxPolls
    /\ ev.kind = "poll"
    /\ \E r \in {LoopBody(Machine, frame_ts, total_ticks, NoIn)} :
          /\ Looped(r)
          /\ ev' = [ev EXCEPT !.kind = "delay", !.pre = Machine,
                              !.ticks = r.ticks, !.gap = @ + r.ticks]

NextIdle == PollIter \/ DelayIter

SpecIdle == InitIdle /\ [][NextIdle]_vars

-----------------------------------------------------------------------------
(* SpecStop: the step_frame loop around the cassette auto-stop deadlines    *)

\* Loop iterations of step_frame explored by SpecStop.
MaxStopIters == 12

\* Ticks left to the auto-stop deadline when SpecStop starts.
StopLeads == {1, 40}

\* Tapes played by SpecStop.
StopData == {<<165>>, <<165, 84>>}

\* Ticks of playback after which is_playback_done holds.
PlaybackTotal(b) == (Len(b.cas_data) + CAS_PAD_BYTES) * CAS_BIT_PERIOD * 8

\* A playback that has run to lead ticks before its end, and a recording
\* whose last port write was lead ticks less than the idle timeout ago.
StopStarts ==
    {Elapse(p, PlaybackTotal(p) - lead) :
        p \in {start_playback(load_cas_file(Bus_reset(0, 0), data)) :
                  data \in StopData},
        lead \in StopLeads}
    \cup {Elapse(start_recording(Bus_reset(0, 0)), CAS_IDLE_TIMEOUT - lead) :
             lead \in StopLeads}

InitStop ==
    /\ cpu = Z80_reset
    /\ bus \in StopStarts
    /\ fdc = FDC_init(FALSE)
    /\ mem = << >>
    /\ frame_ts = 0
    /\ total_ticks = 0
    /\ phase = "step"
    /\ iter = 0
    /\ frame = Frame0(cpu)
    /\ ev = NoEvent(Machine)
    /\ tape = Bus_reset(0, 0)
    /\ emu = Emu0

\* One loop iteration on NOP, IN A,(0xFF) or OUT (0xFF),A.
StopIter ==
    /\ iter < MaxStopIters
    /\ \E in \in {NoIn, InPort, OutPort} :
          \E r \in {LoopBody(Machine, frame_ts, total_ticks, in)} :
              /\ Looped(r)
              /\ ev' = [kind |-> IF in = OutPort THEN "out" ELSE "step",
                        pre |-> Machine, ticks |-> r.ticks]

NextStop == StopIter

SpecStop == InitStop /\ [][NextStop]_vars /\ WF_vars(StopIter)

-----------------------------------------------------------------------------
(* SpecKey: the step_frame loop with the $KEY intercept and a filling       *)
(* keystroke queue                                                          *)

\* Operations (loop iterations and enqueue calls) explored by SpecKey.
MaxKeyOps == 5

\* Texts enqueued: "a\n", "\r" and "B".
KeyTexts == {<<97, 10>>, <<13>>, <<66>>}

\* Return addresses on the stack when $KEY is entered: $KEY itself (the
\* caller loops) and a RAM address.
KeyReturns == {ROM_KEY, 16384}

\* Instructions of SpecKey: NOP and JP $KEY; d1 and d2 are the bytes at SP
\* and SP+1.
KeyInputs ==
    {[i EXCEPT !.d1 = Lo(r), !.d2 = Hi(r)] :
        i \in {NoIn, WithAddr(OP_JP, ROM_KEY)}, r \in KeyReturns}

\* History of SpecKey in ev: queue is the queue before the operation, inp
\* the memory bytes it found, pushed all bytes ever pushed on the queue and
\* delivered all bytes the intercept has put in A.
InitKey ==
    /\ cpu = Z80_reset
    /\ bus = Bus_reset(0, 0)
    /\ fdc = FDC_init(FALSE)
    /\ mem = << >>
    /\ frame_ts = 0
    /\ total_ticks = 0
    /\ phase = "step"
    /\ iter = 0
    /\ frame = Frame0(cpu)
    /\ ev = [kind |-> "init", pre |-> Machine, ticks |-> 0, queue |-> << >>,
             inp |-> NoIn, pushed |-> << >>, delivered |-> << >>]
    /\ tape = Bus_reset(0, 0)
    /\ emu = Emu0

\* One iteration of the loop in Emulator::step_frame: the intercept, and
\* when it returns false the rest of the loop body.
KeyIter ==
    /\ iter < MaxKeyOps
    /\ \E in \in KeyInputs :
       \E k \in {handle_intercept(Begin(Machine), emu.queue, frame_ts, cpu.pc,
                                  in.d1, in.d2)} :
       \E r \in {IF k.handled
                 THEN [M |-> k.M, frame_ts |-> k.frame_ts,
                       total_ticks |-> total_ticks, ticks |-> KEY_TICKS]
                 ELSE LoopBody(Machine, frame_ts, total_ticks, in)} :
          /\ cpu' = r.M.cpu
          /\ bus' = r.M.bus
          /\ fdc' = r.M.fdc
          /\ mem' = r.M.mem
          /\ frame_ts' = r.frame_ts
          /\ total_ticks' = r.total_ticks
          /\ emu' = [emu EXCEPT !.queue = k.queue]
          /\ ev' = [ev EXCEPT !.kind = IF k.handled THEN "key" ELSE "step",
                              !.pre = Machine, !.ticks = r.ticks,
                              !.queue = emu.queue, !.inp = in,
                              !.delivered = IF k.handled
                                            THEN Append(@, r.M.cpu.a) ELSE @]
    /\ iter' = iter + 1
    /\ UNCHANGED <<phase, frame, tape>>

\* KeyInjector::enqueue is called with a text.
KeyEnqueue ==
    /\ iter < MaxKeyOps
    /\ \E text \in KeyTexts :
          /\ emu' = [emu EXCEPT !.queue = enqueue(@, text)]
          /\ ev' = [ev EXCEPT !.kind = "enqueue", !.pre = Machine,
                              !.ticks = 0, !.queue = emu.queue,
                              !.pushed = enqueue(@, text)]
    /\ iter' = iter + 1
    /\ UNCHANGED <<cpu, bus, fdc, mem, frame_ts, total_ticks, phase, frame,
                   tape>>

NextKey == KeyIter \/ KeyEnqueue

SpecKey == InitKey /\ [][NextKey]_vars

------------------------------------------------------------------------------
(* SpecSys: the step_frame loop entering the ROM's SYSTEM loader with a     *)
(* cassette image in the software directory                                 *)

\* Loop iterations explored by SpecSys.
MaxSysOps == 3

\* Blocks per image.
MaxSysBlocks == 2

\* Sum of q[lo..hi]
RECURSIVE SumRange(_, _, _)
SumRange(q, lo, hi) ==
    IF lo > hi THEN 0
    ELSE IF lo = hi THEN q[lo]
    ELSE SumRange(q, lo, (lo + hi) \div 2)
             + SumRange(q, (lo + hi) \div 2 + 1, hi)

SeqSum(q) == SumRange(q, 1, Len(q))

\* checksum = (load_lo + load_hi + sum of data) mod 256
GoodSum(addr, data) == U8(Lo(addr) + Hi(addr) + SeqSum(data))

\* Blocks of the images: two bytes at 0x5000; one byte at 0x5001, with a
\* right and with a wrong checksum; 256 bytes (count 0) at 0xFF80, which run
\* past 0xFFFF into 0x0000..0x007F.
SysBlocks ==
    LET Blk(addr, data, off) ==
            [addr |-> addr, data |-> data,
             cksum |-> U8(GoodSum(addr, data) + off)]
    IN  {Blk(20480, <<170, 187>>, 0),
         Blk(20481, <<17>>, 0), Blk(20481, <<17>>, 1),
         Blk(65408, [j \in 1..256 |-> (3 * j + 1) % 256], 0)}

RECURSIVE SeqsUpTo(_, _)
SeqsUpTo(S, n) ==
    IF n = 0 THEN {<< >>}
    ELSE LET P == SeqsUpTo(S, n - 1)
         IN  P \cup {Append(q, x) : q \in P, x \in S}

\* Execute addresses of the images, outside the blocks.
SysExecs == {18944, 20482}

\* Leader lengths of the images.
SysLeaders == {0, 2}

\* Structurally well-formed SYSTEM images.
SysImages ==
    [leader : SysLeaders, blocks : SeqsUpTo(SysBlocks, MaxSysBlocks),
     exec : SysExecs]

\* The name field: "GAME  ".
SysName == <<71, 65, 77, 69, 32, 32>>

FlatBlock(b) ==
    <<SYS_BLOCK, Len(b.data) % 256, Lo(b.addr), Hi(b.addr)>>
        \o b.data \o <<b.cksum>>

RECURSIVE FlatBlocks(_)
FlatBlocks(bs) ==
    IF bs = << >> THEN << >> ELSE FlatBlock(Head(bs)) \o FlatBlocks(Tail(bs))

\* The bytes of the cassette file of an image.
FlatImage(img) ==
    [j \in 1..img.leader |-> 0] \o <<SYS_SYNC, SYS_TYPE>> \o SysName
        \o FlatBlocks(img.blocks) \o <<SYS_EOF, Lo(img.exec), Hi(img.exec)>>

\* Lengths at which a file is cut off: inside the leader, the header, the
\* name and the first block, and inside the terminator.
SysCuts(f) == {k \in 0..(Len(f) - 1) : k <= 16 \/ k >= Len(f) - 3}

\* Files with a structural error, made from the image without leader that
\* executes at 0x4A00: cut off, without the sync byte, with the type byte
\* of a BASIC tape, with an unknown marker for the first block or for the
\* terminator.
SysDamaged(img) ==
    LET f == FlatImage(img)
        hdr == 2 + SYS_NAME_LEN
    IN  {SubSeq(f, 1, k) : k \in SysCuts(f)}
        \cup {[f EXCEPT ![1] = 164], [f EXCEPT ![2] = 211],
              [f EXCEPT ![hdr + 1] = IF @ = SYS_BLOCK THEN 61 ELSE 121],
              [f EXCEPT ![Len(f) - 2] = 121]}

\* What find_cas_file finds when the SYSTEM loader is entered: nothing, a
\* well-formed image (wf), or a damaged file.
NoFile == [found |-> FALSE, wf |-> FALSE, buf |-> << >>, blocks |-> << >>,
           exec |-> 0]

SysFiles ==
    {NoFile}
    \cup {[found |-> TRUE, wf |-> TRUE, buf |-> FlatImage(img),
           blocks |-> img.blocks, exec |-> img.exec] : img \in SysImages}
    \cup UNION {{[found |-> TRUE, wf |-> FALSE, buf |-> f,
                  blocks |-> img.blocks, exec |-> img.exec] :
                    f \in SysDamaged(img)} :
                 img \in {i \in SysImages :
                             i.leader = 0 /\ i.exec = 18944}}

\* Instructions of SpecSys: NOP and JP 0x5002.
SysInputs == {NoIn, WithAddr(OP_JP, 20482)}

\* Memory when the SYSTEM loader is entered: never written, or with bytes
\* at an address that blocks cover and at one that none covers.
SysMems == {<< >>, (20481 :> 99) @@ (24576 :> 98)}

\* The ROM has reached its SYSTEM loader. History of SpecSys in ev: file is what the hook found, loaded the
\* machine when the hook returned, fired whether PC was at the loader.
InitSys ==
    /\ cpu = [Z80_reset EXCEPT !.pc = ROM_SYSTEM_ENTRY]
    /\ bus = Bus_reset(0, 0)
    /\ fdc = FDC_init(FALSE)
    /\ mem \in SysMems
    /\ frame_ts = 0
    /\ total_ticks = 0
    /\ phase = "step"
    /\ iter = 0
    /\ frame = Frame0(cpu)
    /\ ev = [kind |-> "init", pre |-> Machine, ticks |-> 0, file |-> NoFile,
             loaded |-> Machine, fired |-> FALSE, ok |-> FALSE,
             cksum_errors |-> 0]
    /\ tape = Bus_reset(0, 0)
    /\ emu = Emu0

\* One iteration of the loop in Emulator::step_frame: the SYSTEM hook, then
\* the rest of the loop body (the other hooks and the key intercept do not
\* fire at these addresses with an idle cassette and an empty queue).
SysIter ==
    /\ iter < MaxSysOps
    /\ \E in \in SysInputs :
       \E file \in IF cpu.pc = ROM_SYSTEM_ENTRY THEN SysFiles ELSE {NoFile} :
       \E h \in {on_system_entry(cpu.pc, Begin(Machine), emu, file)} :
       \E r \in {LoopBody(h.M, frame_ts, total_ticks, in)} :
          /\ cpu' = r.M.cpu
          /\ bus' = r.M.bus
          /\ fdc' = r.M.fdc
          /\ mem' = r.M.mem
          /\ frame_ts' = r.frame_ts
          /\ total_ticks' = r.total_ticks
          /\ emu' = h.emu
          /\ ev' = [kind |-> "step", pre |-> Machine, ticks |-> r.ticks,
                    file |-> file, loaded |-> h.M, fired |-> h.fired,
                    ok |-> h.ok, cksum_errors |-> h.cksum_errors]
    /\ iter' = iter + 1
    /\ UNCHANGED <<phase, frame, tape>>

NextSys == SysIter

SpecSys == InitSys /\ [][NextSys]_vars

------------------------------------------------------------------------------
(* SpecDbg: calls of the freeze detector, started fresh or after a long loop *)

\* check_freeze calls explored by SpecDbg.
MaxDbgCalls == 4

\* PCs passed to check_freeze: two RAM addresses close together, a distant
\* one, and $KEY in the ROM.
DbgPcs == {20480, 20481, 24576, ROM_KEY}

\* The detector after n >= FREEZE_WINDOW calls, none of which tripped, with
\* p and q in turn, p first; both in RAM and less than FREEZE_SPAN apart.
DebuggerAfterLoop(p, q, n) ==
    [pc_window_ |-> [k \in 0..(FREEZE_WINDOW - 1) |->
                        IF k % 2 = 0 THEN p ELSE q],
     win_pos_ |-> n % FREEZE_WINDOW, win_full_ |-> TRUE,
     ticks_acc_ |-> 4 * (n - (FREEZE_WINDOW - 1)), dumped_ |-> FALSE,
     last_pc_ |-> IF n % 2 = 1 THEN p ELSE q,
     streak_ |-> IF p = q THEN n - 1 ELSE 0]

\* Detector states at the start: as constructed; two calls before a loop on
\* one RAM address trips it; two calls before a loop on two addresses does.
DbgStarts ==
    {Debugger0,
     DebuggerAfterLoop(20480, 20480, FREEZE_STREAK),
     DebuggerAfterLoop(20480, 20481,
                       FREEZE_TICKS \div 4 + FREEZE_WINDOW - 3)}

\* History of SpecDbg in ev: pre is the detector before the call, pc the
\* argument, tripped the value returned, trips the number of calls that
\* returned true.
InitDbg ==
    /\ cpu = Z80_reset
    /\ bus = Bus_reset(0, 0)
    /\ fdc = FDC_init(FALSE)
    /\ mem = << >>
    /\ frame_ts = 0
    /\ total_ticks = 0
    /\ phase = "step"
    /\ iter = 0
    /\ frame = Frame0(cpu)
    /\ \E d \in DbgStarts : emu = [Emu0 EXCEPT !.debugger_ = d]
    /\ ev = [kind |-> "init", pre |-> emu.debugger_, pc |-> 0,
             tripped |-> FALSE, trips |-> 0]
    /\ tape = Bus_reset(0, 0)

\* debugger_.check_freeze(pc)
DbgCheck ==
    /\ iter < MaxDbgCalls
    /\ \E pc \in DbgPcs :
       \E r \in {check_freeze(emu.debugger_, pc)} :
          /\ emu' = [emu EXCEPT !.debugger_ = r.d]
          /\ ev' = [kind |-> "check", pre |-> emu.debugger_, pc |-> pc,
                    tripped |-> r.tripped,
                    trips |-> IF r.tripped THEN ev.trips + 1 ELSE ev.trips]
    /\ iter' = iter + 1
    /\ UNCHANGED <<cpu, bus, fdc, mem, frame_ts, total_ticks, phase, frame,
                   tape>>

NextDbg == DbgCheck

SpecDbg == InitDbg /\ [][NextDbg]_vars

------------------------------------------------------------------------------
(* SpecIdx: the step_frame loop on programs of DD and FD prefixes and       *)
(* LD rr,nn, interrupts disabled                                            *)

\* Loop iterations explored by SpecIdx.
MaxIdxOps == 5

\* Operands nn of LD rr,nn.
IdxWords == {4660, 48879}

\* Instructions of SpecIdx: NOP, the DD and FD prefixes, and LD rr,nn.
IdxInputs ==
    {[NoIn EXCEPT !.op = o] : o \in {OP_NOP, PREFIX_DD, PREFIX_FD}}
    \cup {WithAddr(OP_LD_HL_NN, w) : w \in IdxWords}

\* History of SpecIdx in ev: inp is the instruction bytes of the last step,
\* chain the DD and FD bytes fetched in the steps right before it, in order.
InitIdx ==
    /\ cpu = Z80_reset
    /\ bus = Bus_reset(0, 0)
    /\ fdc = FDC_init(FALSE)
    /\ mem = << >>
    /\ frame_ts = 0
    /\ total_ticks = 0
    /\ phase = "step"
    /\ iter = 0
    /\ frame = Frame0(cpu)
    /\ ev = [kind |-> "init", pre |-> Machine, ticks |-> 0, inp |-> NoIn,
             chain |-> << >>, next |-> << >>]
    /\ tape = Bus_reset(0, 0)
    /\ emu = Emu0

\* One iteration of the loop in Emulator::step_frame
IdxIter ==
    /\ iter < MaxIdxOps
    /\ \E in \in IdxInputs :
       \E r \in {LoopBody(Machine, frame_ts, total_ticks, in)} :
          /\ Looped(r)
          /\ ev' = [kind |-> "step", pre |-> Machine, ticks |-> r.ticks,
                    inp |-> in, chain |-> ev.next,
                    next |-> IF in.op \in {PREFIX_DD, PREFIX_FD}
                             THEN Append(ev.next, in.op) ELSE << >>]

NextIdx == IdxIter

SpecIdx == InitIdx /\ [][NextIdx]_vars

------------------------------------------------------------------------------
(* SpecFind: calls of find_cas_file on software directories                 *)

\* find_cas_file calls explored by SpecFind.
MaxFindCalls == 1

\* File names: "sc.cas", "scz.cas", "scarf.cas", "scarf.bas", "SCB.BAS",
\* "sc.txt" and "zz.cas".
FindNames ==
    {<<115, 99, 46, 99, 97, 115>>,
     <<115, 99, 122, 46, 99, 97, 115>>,
     <<115, 99, 97, 114, 102, 46, 99, 97, 115>>,
     <<115, 99, 97, 114, 102, 46, 98, 97, 115>>,
     <<83, 67, 66, 46, 66, 65, 83>>,
     <<115, 99, 46, 116, 120, 116>>,
     <<122, 122, 46, 99, 97, 115>>}

\* Names asked for: "SC", "scarf", "x" and the empty name.
FindRequests == {<<83, 67>>, <<115, 99, 97, 114, 102>>, <<120>>, << >>}

\* History of SpecFind in ev: the directory, the name asked for and the
\* file picked by the last call.
InitFind ==
    /\ cpu = Z80_reset
    /\ bus = Bus_reset(0, 0)
    /\ fdc = FDC_init(FALSE)
    /\ mem = << >>
    /\ frame_ts = 0
    /\ total_ticks = 0
    /\ phase = "step"
    /\ iter = 0
    /\ frame = Frame0(cpu)
    /\ ev = [kind |-> "init", dir |-> {}, filename |-> << >>,
             picked |-> << >>]
    /\ tape = Bus_reset(0, 0)
    /\ emu = Emu0

\* find_cas_file(filename) with the files dir in software/
FindCall ==
    /\ iter < MaxFindCalls
    /\ \E dir \in SUBSET FindNames, filename \in FindRequests :
          ev' = [kind |-> "find", dir |-> dir, filename |-> filename,
                 picked |-> find_cas_file(dir, filename)]
    /\ iter' = iter + 1
    /\ UNCHANGED <<cpu, bus, fdc, mem, frame_ts, total_ticks, phase, frame,
                   tape, emu>>

NextFind == FindCall

SpecFind == InitFind /\ [][NextFind]_vars

------------------------------------------------------------------------------
(* SpecHalt: the step_frame loop on programs of EI, HALT and NOP            *)

\* Loop iterations explored by SpecHalt.
MaxHaltIter == 5

\* Instructions of SpecHalt.
HaltInputs == {[NoIn EXCEPT !.op = o] : o \in {OP_NOP, OP_EI, OP_HALT}}

\* History of SpecHalt: frame.halt_at is the address that the last HALT
\* opcode executed was fetched from, -1 before the first.
InitHalt ==
    /\ cpu = Z80_reset
    /\ \E p \in StartPositions : bus = Bus_reset(p[1], p[2])
    /\ fdc = FDC_init(FALSE)
    /\ mem = << >>
    /\ frame_ts = 0
    /\ total_ticks = 0
    /\ phase = "step"
    /\ iter = 0
    /\ frame = [n |-> 0, accepts |-> 0, cpu0 |-> cpu, halt_at |-> -1]
    /\ ev = NoEvent(Machine)
    /\ tape = Bus_reset(0, 0)
    /\ emu = Emu0

\* cpu_.step() and the ticks' bookkeeping
HaltStep ==
    /\ phase = "step"
    /\ iter < MaxHaltIter
    /\ \E in \in HaltInputs :
          /\ StepFrame_step(in)
          /\ frame' = IF ~cpu.halted /\ cpu.prefix = 0
                           /\ FetchedOp(Machine, in) = OP_HALT
                      THEN [frame EXCEPT !.halt_at = cpu.pc] ELSE frame
    /\ iter' = iter + 1

NextHalt == HaltStep \/ StepFrame_deliver

SpecHalt == InitHalt /\ [][NextHalt]_vars

------------------------------------------------------------------------------
(* SpecBlock: the step_frame loop on a block transfer in RAM with the frame *)
(* interrupt enabled and a handler that only returns                        *)

\* Loop iterations explored by SpecBlock.
MaxBlockIter == 10

\* Address of the ED prefix of the block instruction.
BlockAt == 16384

\* Source and stack of the programs.
BlockSrc == 20480
BlockStack == 24576

\* Byte counts in BC.
BlockCounts == {1, 2, 3}

\* Video positions at the start, on the last scan line: the frame interrupt
\* is raised by the first iteration's last step, by the second's, or by the
\* step that fetches the ED prefix; and cold boot, with no interrupt.
BlockPositions == {<<261, 93>>, <<261, 72>>, <<261, 110>>, <<0, 0>>}

\* Memory of a program: the block instruction at BlockAt, RETI at the
\* interrupt vector, three bytes at the source; all other cells read 0.
BlockMem(op) ==
    (BlockAt :> PREFIX_ED) @@ (BlockAt + 1 :> op)
        @@ (IM1_VECTOR :> PREFIX_ED) @@ (IM1_VECTOR + 1 :> ED_RETI)
        @@ (BlockSrc - 1 :> 11) @@ (BlockSrc :> 22) @@ (BlockSrc + 1 :> 33)

\* The machine after the steps of M up to and including the one that leaves
\* the block instruction, with no interrupt delivered; at most n steps.
RECURSIVE RunBlock(_, _)
RunBlock(M, n) ==
    IF n = 0 \/ (M.cpu.pc = BlockAt + 2 /\ M.cpu.prefix = 0) THEN M
    ELSE Only({RunBlock(S, n - 1) : S \in {Z80_step(Begin(M), NoIn)}})

\* The program has been entered at BlockAt with interrupts enabled.
\* History of SpecBlock: frame.cpu0 and frame.mem0 are the registers and
\* the memory at the start.
InitBlock ==
    /\ \E n \in BlockCounts, dst \in {BlockSrc + 1, BlockSrc + 256} :
          cpu = [Z80_reset EXCEPT !.pc = BlockAt, !.sp = BlockStack,
                                  !.hl = BlockSrc, !.de = dst, !.bc = n,
                                  !.iff1 = TRUE, !.iff2 = TRUE]
    /\ \E p \in BlockPositions : bus = Bus_reset(p[1], p[2])
    /\ fdc = FDC_init(FALSE)
    /\ \E op \in {ED_LDIR, ED_LDDR} : mem = BlockMem(op)
    /\ frame_ts = 0
    /\ total_ticks = 0
    /\ phase = "step"
    /\ iter = 0
    /\ frame = [n |-> 0, accepts |-> 0, cpu0 |-> cpu, mem0 |-> mem]
    /\ ev = NoEvent(Machine)
    /\ tape = Bus_reset(0, 0)
    /\ emu = Emu0

\* cpu_.step() and the ticks' bookkeeping, on the bytes in memory
BlockStep ==
    /\ phase = "step"
    /\ iter < MaxBlockIter
    /\ FetchedOp(Machine, NoIn) \in Decodable(cpu.prefix)
    /\ StepFrame_step(NoIn)
    /\ iter' = iter + 1
    /\ UNCHANGED frame

NextBlock == BlockStep \/ StepFrame_deliver

SpecBlock == InitBlock /\ [][NextBlock]_vars

------------------------------------------------------------------------------
(* SpecRun: wall frames of Emulator::run with the key injector, started     *)
(* shortly before the end of a frame                                        *)

\* Operations explored by SpecRun.
MaxRunOps == 6

\* Ticks left of the frame's budget in the start states.
RunLeads == {4, 14}

\* Queues in the start states: empty and one key.
RunQueues == {<< >>, <<65>>}

\* Ticks of one pass of update_video_timing over all scan lines.
VIDEO_T_STATES_PER_FRAME_LINES ==
    VIDEO_TOTAL_SCANLINES * VIDEO_T_STATES_PER_SCANLINE

\* The bus after t ticks of a program that leaves interrupts disabled and
\* the cassette alone.
Bus_after(t) ==
    [Bus_reset((t \div VIDEO_T_STATES_PER_SCANLINE) % VIDEO_TOTAL_SCANLINES,
               t % VIDEO_T_STATES_PER_SCANLINE)
         EXCEPT !.global_t_states = t,
                !.wraps = t \div VIDEO_T_STATES_PER_FRAME_LINES,
                !.int_pending = t >= VIDEO_T_STATES_PER_FRAME_LINES,
                !.int_for_latch = t >= VIDEO_T_STATES_PER_FRAME_LINES]

\* History of SpecRun in ev: speed and clears are cur_speed_ and the count
\* of Sound::clear calls before the operation, queue the queue before it.
InitRun ==
    /\ cpu = Z80_reset
    /\ fdc = FDC_init(FALSE)
    /\ mem = << >>
    /\ phase = "step"
    /\ iter = 0
    /\ frame = Frame0(cpu)
    /\ tape = Bus_reset(0, 0)
    /\ \E sp \in {"NORMAL", "TURBO"}, q \in RunQueues, lead \in RunLeads :
       \E b \in {IF sp = "TURBO" THEN TURBO_T_STATES
                  ELSE T_STATES_PER_FRAME} :
          /\ emu = [Emu0 EXCEPT !.queue = q, !.cur_speed_ = sp,
                                !.t_budget = b]
          /\ frame_ts = b - lead
          /\ total_ticks = b - lead
          /\ bus = Bus_after(b - lead)
    /\ ev = [kind |-> "init", pre |-> Machine, ticks |-> 0,
             queue |-> emu.queue, speed |-> emu.cur_speed_,
             clears |-> emu.sound_clears]

RunEvent(kind, ticks) ==
    [kind |-> kind, pre |-> Machine, ticks |-> ticks, queue |-> emu.queue,
     speed |-> emu.cur_speed_, clears |-> emu.sound_clears]

\* The top of the loop body of Emulator::run up to the entry of step_frame,
\* where frame_ts is 0.
RunSelect ==
    /\ phase = "select"
    /\ iter < MaxRunOps
    /\ emu' = run_select_speed(emu)
    /\ frame_ts' = 0
    /\ phase' = "step"
    /\ iter' = iter + 1
    /\ ev' = RunEvent("select", 0)
    /\ UNCHANGED <<cpu, bus, fdc, mem, total_ticks, frame, tape>>

\* One iteration of the loop in Emulator::step_frame(t_budget).
RunIter ==
    /\ phase = "step"
    /\ iter < MaxRunOps
    /\ frame_ts < emu.t_budget
    /\ \E in \in KeyInputs :
       \E k \in {handle_intercept(Begin(Machine), emu.queue, frame_ts, cpu.pc,
                                  in.d1, in.d2)} :
       \E r \in {IF k.handled
                 THEN [M |-> k.M, frame_ts |-> k.frame_ts,
                       total_ticks |-> total_ticks, ticks |-> KEY_TICKS]
                 ELSE LoopBody(Machine, frame_ts, total_ticks, in)} :
          /\ cpu' = r.M.cpu
          /\ bus' = r.M.bus
          /\ fdc' = r.M.fdc
          /\ mem' = r.M.mem
          /\ frame_ts' = r.frame_ts
          /\ total_ticks' = r.total_ticks
          /\ emu' = [emu EXCEPT !.queue = k.queue]
          /\ ev' = RunEvent(IF k.handled THEN "key" ELSE "step", r.ticks)
    /\ iter' = iter + 1
    /\ UNCHANGED <<phase, frame, tape>>

\* KeyInjector::enqueue is called from a hook of step_frame.
RunEnqueue ==
    /\ phase = "step"
    /\ iter < MaxRunOps
    /\ frame_ts < emu.t_budget
    /\ \E text \in KeyTexts :
          emu' = [emu EXCEPT !.queue = enqueue(@, text)]
    /\ ev' = RunEvent("enqueue", 0)
    /\ iter' = iter + 1
    /\ UNCHANGED <<cpu, bus, fdc, mem, frame_ts, total_ticks, phase, frame,
                   tape>>

\* step_frame returns; the rest of the loop body of Emulator::run.
RunFrameEnd ==
    /\ phase = "step"
    /\ iter < MaxRunOps
    /\ frame_ts >= emu.t_budget
    /\ emu' = run_frame_end(emu)
    /\ phase' = "select"
    /\ frame' = [frame EXCEPT !.n = @ + 1]
    /\ iter' = iter + 1
    /\ ev' = RunEvent("frame", frame_ts)
    /\ UNCHANGED <<cpu, bus, fdc, mem, frame_ts, total_ticks, tape>>

NextRun == RunSelect \/ RunIter \/ RunEnqueue \/ RunFrameEnd

SpecRun == InitRun /\ [][NextRun]_vars

-----------------------------------------------------------------------------
(* Properties                                                               *)

\* Addresses at which Bus::write stores the byte: ROM shadow, VRAM, RAM.
Storable(addr) == addr <= ROM_END \/ addr >= VRAM_START

\* The machine before the last operation, with its access logs emptied.
Pre == Begin(ev.pre)

\* C1: deliver_interrupt accepts only when interrupt_pending() and IFF1 both
\* hold. When it accepts, SP has decreased by 2, the low byte of the
\* pre-acceptance PC (after the +1 adjustment if the CPU was halted) is
\* stored at the new SP and the high byte at the new SP+1, PC is 0x0038, the
\* HALT latch is clear and 13 ticks are charged to the bus clock, the frame
\* counter and the cumulative counter. When it does not accept, nothing
\* changes.
C1_DeliverInterrupt ==
    /\ ev.kind = "accept" =>
          LET ret == U16(Pre.cpu.pc + (IF Pre.cpu.halted THEN 1 ELSE 0))
              sp  == U16(Pre.cpu.sp - 2)
          IN  /\ interrupt_pending(Pre) /\ Pre.cpu.iff1
              /\ cpu.sp = sp
              /\ Storable(sp) => Bus_peek(Machine, sp, 0) = Lo(ret)
              /\ Storable(U16(sp + 1)) =>
                     Bus_peek(Machine, U16(sp + 1), 0) = Hi(ret)
              /\ cpu.pc = IM1_VECTOR
              /\ ~cpu.halted
              /\ ev.ticks = IM1_LATENCY
              /\ bus.global_t_states = Pre.bus.global_t_states + IM1_LATENCY
    /\ ev.kind = "noaccept" =>
          /\ ~(interrupt_pending(Pre) /\ Pre.cpu.iff1)
          /\ Machine = Pre
          /\ ev.ticks = 0

\* An interrupt was accepted from HALT with the stack in RAM.
C1_Witness ==
    /\ ev.kind = "accept"
    /\ ev.pre.cpu.halted
    /\ Storable(cpu.sp)
    /\ Bus_peek(Machine, cpu.sp, 0) = Lo(U16(ev.pre.cpu.pc + 1))

\* C2: step() executes one complete instruction, prefix chain included: no
\* prefix is pending when it returns.
C2_StepCompletesInstruction == ev.kind = "step" => cpu.prefix = 0

\* C3: a full frame is exactly 29,498 ticks: the scanline counter has wrapped
\* from 261 to 0 once for every 29,498 ticks of the bus clock.
C3_FrameLength ==
    bus.wraps = bus.global_t_states \div VIDEO_T_STATES_PER_FRAME

\* C4: from cold boot with interrupts enabled by the first instruction, one
\* frame budget of 29,498 ticks ends with exactly one interrupt accepted, SP
\* decreased by 2 and IFF2 equal to the IFF1 the frame ran with (set).
C4_OneAcceptancePerFrame ==
    (/\ frame.n = 0
     /\ phase = "step"
     /\ frame_ts >= T_STATES_PER_FRAME
     /\ Stored(Machine, 0, 0) = OP_EI) =>
        /\ frame.accepts = 1
        /\ cpu.sp = U16(Z80_reset.sp - 2)
        /\ cpu.iff2

\* C5: the tick count step() returns equals the advance of the bus clock
\* global_t for that step, contention waits included.
C5_TicksMatchClock ==
    ev.kind = "step" =>
        bus.global_t_states - ev.pre.bus.global_t_states = ev.ticks

\* C6: once HALT has executed, PC is the address of the HALT opcode and stays
\* there, each step costs 4 ticks, and a step never clears the HALT latch.
C6_HaltHoldsPC ==
    /\ (ev.kind = "step" /\ cpu.halted) =>
          cpu.pc = ev.pre.cpu.pc /\ ev.ticks = 4
    /\ (ev.kind = "step" /\ ev.pre.cpu.halted /\ ev.pre.cpu.prefix = 0) =>
          cpu.halted

\* C7: after every interrupt acceptance reachable from reset, IFF1 is false
\* and IFF2 has the value it had before the acceptance.
C7_AcceptanceKeepsIFF2 ==
    ev.kind = "accept" => ~cpu.iff1 /\ cpu.iff2 = ev.pre.cpu.iff2

\* An interrupt was accepted with IFF2 set.
C7_Witness == ev.kind = "accept" /\ cpu.iff2 /\ ev.pre.cpu.iff2

IrqLatchAddrs == IRQ_LATCH_START..IRQ_LATCH_END

\* C8 (as amended): the sticky latch int_for_latch, once set, is cleared
\* only by a step that reads an address in 0x37E0-0x37E3; interrupt
\* acceptance, writes, ticks and reads of other addresses leave it set.
C8_LatchClearedByLatchRead ==
    (ev.pre.bus.int_for_latch /\ ~bus.int_for_latch) =>
        ev.kind = "step" /\ bus.reads \cap IrqLatchAddrs # {}

\* C8 (as stated): the latch is cleared only by a read of 0x37E0 itself.
C8_LatchClearedOnlyAt37E0 ==
    (ev.pre.bus.int_for_latch /\ ~bus.int_for_latch) =>
        ev.kind = "step" /\ IRQ_LATCH_START \in bus.reads

\* An acceptance has left the latch set.
C8_Witness ==
    ev.kind = "accept" /\ ev.pre.bus.int_for_latch /\ bus.int_for_latch

\* C9 (as amended): while INTRQ is raised and IFF1 is set the driver accepts
\* an interrupt; acceptance does not clear INTRQ; a step clears INTRQ only by
\* reading the status register or writing the command register (0x37EC).
C9_IntrqPendingUntilAcknowledged ==
    /\ ev.kind = "noaccept" => ~(ev.pre.fdc.intrq_ /\ ev.pre.cpu.iff1)
    /\ ev.kind \in {"accept", "noaccept"} => fdc.intrq_ = ev.pre.fdc.intrq_
    /\ (ev.kind = "step" /\ ev.pre.fdc.intrq_ /\ ~fdc.intrq_) =>
          FDC_STATUS \in bus.reads \cup bus.writes

\* C9 (as stated): INTRQ becomes false only after a read of the status
\* register.
C9_IntrqClearedOnlyByStatusRead ==
    (ev.pre.fdc.intrq_ /\ ~fdc.intrq_) =>
        ev.kind = "step" /\ FDC_STATUS \in bus.reads

\* An interrupt was accepted for INTRQ alone, and INTRQ is still raised.
C9_Witness ==
    ev.kind = "accept" /\ ~ev.pre.bus.int_pending /\ fdc.intrq_

\* C10 (as amended): INTRQ is cleared only by a read of the status register
\* or a write of the command register; no write of the track, sector or data
\* register, no read of the data register and no drive-select write clears
\* it.
C10_IntrqClearedAt37EC ==
    (ev.pre.fdc.intrq_ /\ ~fdc.intrq_) => ev.addr = FDC_STATUS

\* C10 (as stated): INTRQ is cleared only by a read of the status register.
C10_IntrqClearedOnlyByStatusRead ==
    (ev.pre.fdc.intrq_ /\ ~fdc.intrq_) =>
        ev.kind = "read" /\ ev.addr = FDC_STATUS

\* A track-register write has left a raised INTRQ alone.
C10_Witness ==
    /\ ev.kind = "write"
    /\ ev.addr = FDC_TRACK
    /\ ev.pre.fdc.intrq_
    /\ fdc.intrq_

\* The last operation wrote a byte to the FDC command register.
IsCommand == ev.kind = "write" /\ ev.addr = FDC_STATUS

\* High nibble of the command byte just written.
CmdType == ev.val \div 16

\* A transfer was in progress before the last operation / is in progress now.
WasInTransfer ==
    ev.pre.fdc.buf_len_ > 0 /\ ev.pre.fdc.buf_pos_ < ev.pre.fdc.buf_len_

\* The last operation was a data-register access that moved the last byte of
\* a transfer.
MovedLastByte ==
    /\ ev.kind \in {"read", "write"}
    /\ ev.addr = FDC_DATA
    /\ WasInTransfer
    /\ ev.kind = "write" => ev.pre.fdc.write_pending_
    /\ ev.pre.fdc.buf_pos_ + 1 >= ev.pre.fdc.buf_len_

\* C11 (as amended): a command of the command set (high nibble 0x0-0xD) ends
\* with INTRQ set once it completes: at once for Restore, Seek, Step and for
\* error outcomes of the transfer commands, and on the transfer of the last
\* buffer byte for Read Sector, Write Sector and Read Address, INTRQ staying
\* clear while the transfer runs; Force Interrupt raises INTRQ iff bit 3 of
\* the command byte is set; a byte with high nibble 0xE or 0xF is executed as
\* Force Interrupt 0xD0 and raises no INTRQ.
C11_CommandsEndWithIntrq ==
    /\ (IsCommand /\ CmdType \in 0..7) => fdc.intrq_
    /\ (IsCommand /\ CmdType \in 8..12) => (fdc.intrq_ <=> ~InTransfer)
    /\ (IsCommand /\ CmdType = 13) => (fdc.intrq_ <=> BitSet(ev.val, 3))
    /\ (IsCommand /\ CmdType \in {14, 15}) => ~fdc.intrq_
    /\ InTransfer => ~fdc.intrq_
    /\ MovedLastByte => fdc.intrq_ /\ ~InTransfer

\* C11 (as stated): every command byte ends with INTRQ set once it completes
\* (unless it is a Force Interrupt without bit 3).
C11_EveryCommandRaisesIntrq ==
    (IsCommand /\ ~(CmdType = 13 /\ ~BitSet(ev.val, 3))) =>
        fdc.intrq_ \/ InTransfer

\* The last byte of a Read Sector transfer was read and INTRQ is raised.
C11_Witness ==
    /\ MovedLastByte
    /\ ev.kind = "read"
    /\ ev.pre.fdc.buf_len_ = BYTES_PER_SECTOR
    /\ ~ev.pre.fdc.intrq_
    /\ fdc.intrq_

\* BUSY and DRQ are both set in status byte st.
BusyDrq(st) == st % 4 = ST_BUSY + ST_DRQ

\* Offset of sector s of track t in an image.
SectorOffset(t, s) == (t * SECTORS_PER_TRACK + s) * BYTES_PER_SECTOR

\* The last operation read a byte of a Read Sector transfer.
ReadSectorByte ==
    /\ ev.kind = "read"
    /\ ev.addr = FDC_DATA
    /\ WasInTransfer
    /\ ~ev.pre.fdc.write_pending_
    /\ ev.pre.fdc.buf_len_ = BYTES_PER_SECTOR

\* C12: a Read Sector command on a loaded drive with the head on track t and
\* sector register s < 10 sets BUSY and DRQ and starts a 256-byte transfer;
\* the reads of the data register that follow return, in order, the image
\* bytes at offsets (t*10+s)*256 .. +255; BUSY and DRQ stay set until the
\* 256th read, after which both are clear and INTRQ is set; a status read
\* clears INTRQ.
C12_ReadSectorTransfer ==
    /\ (/\ IsCommand
        /\ CmdType \in {8, 9}
        /\ active_drive(ev.pre.fdc) >= 0
        /\ ev.pre.fdc.sector_ < SECTORS_PER_TRACK) =>
          LET d == active_drive(ev.pre.fdc)
          IN  /\ BusyDrq(fdc.status_)
              /\ fdc.buf_len_ = BYTES_PER_SECTOR /\ fdc.buf_pos_ = 0
              /\ fdc.read_from_ =
                     [drive |-> d,
                      track |-> ev.pre.fdc.drives[d].head_track,
                      sector |-> ev.pre.fdc.sector_]
    /\ ReadSectorByte =>
          LET from == ev.pre.fdc.read_from_
              pos  == ev.pre.fdc.buf_pos_
          IN  /\ ev.val = ImageByte(fdc.drives[from.drive],
                              SectorOffset(from.track, from.sector) + pos)
              /\ BusyDrq(ev.pre.fdc.status_)
              /\ IF pos + 1 < BYTES_PER_SECTOR
                 THEN BusyDrq(fdc.status_) /\ ~fdc.intrq_
                      /\ fdc.buf_pos_ = pos + 1
                 ELSE fdc.status_ % 4 = 0 /\ fdc.intrq_
    /\ (ev.kind = "read" /\ ev.addr = FDC_STATUS) => ~fdc.intrq_

\* The 256th byte of a sector beyond track 0 was read.
C12_Witness ==
    /\ ReadSectorByte
    /\ ev.pre.fdc.buf_pos_ = BYTES_PER_SECTOR - 1
    /\ ev.pre.fdc.read_from_.track > 0
    /\ ev.pre.fdc.read_from_.sector > 0
    /\ fdc.intrq_

\* The last operation changed the content of some drive's image.
ImageChanged ==
    \E d \in 0..(DRIVES - 1) :
        fdc.drives[d].written # ev.pre.fdc.drives[d].written

\* The 256 bytes a program writes during a Write Sector transfer.
SectorWritten == [i \in 0..(BYTES_PER_SECTOR - 1) |-> SectorPattern(i)]

\* C13: after a Write Sector command with the head on track t and sector
\* register s, (t, s) is captured and the image is unchanged until the data
\* register write that ends the transfer; on that write the 256 written
\* bytes are stored in order as sector (t, s) of the image, BUSY and DRQ are
\* cleared and INTRQ is set, and nothing else in any image changes.
C13_WriteSectorCommit ==
    /\ (/\ IsCommand
        /\ CmdType \in {10, 11}
        /\ active_drive(ev.pre.fdc) >= 0
        /\ ev.pre.fdc.sector_ < SECTORS_PER_TRACK) =>
          /\ fdc.write_pending_
          /\ fdc.write_track_ =
                 ev.pre.fdc.drives[active_drive(ev.pre.fdc)].head_track
          /\ fdc.write_sector_ = ev.pre.fdc.sector_
    /\ ImageChanged =>
          /\ MovedLastByte /\ ev.kind = "write"
          /\ \A d \in 0..(DRIVES - 1) :
                fdc.drives[d].written =
                    IF d = active_drive(ev.pre.fdc)
                    THEN (ev.pre.fdc.write_track_ * SECTORS_PER_TRACK
                            + ev.pre.fdc.write_sector_ :> SectorWritten)
                         @@ ev.pre.fdc.drives[d].written
                    ELSE ev.pre.fdc.drives[d].written
          /\ fdc.status_ % 4 = 0
          /\ fdc.intrq_

\* C14: a write to the drive-select latch whose bits 0-2 are all zero,
\* whatever its bit 3, preserves the selection: the drive that commands
\* address is the same after the write as before it.
C14_DeselectKeepsDrive ==
    (ev.kind = "write" /\ ev.addr \in IrqLatchAddrs /\ ev.val % 8 = 0) =>
        current_drive(fdc) = current_drive(ev.pre.fdc)

\* The last operation was a Read Sector or Write Sector command given to a
\* ready drive with the sector register or the head beyond the disk format.
OutOfRangeCommand ==
    /\ IsCommand
    /\ CmdType \in 8..11
    /\ active_drive(ev.pre.fdc) >= 0
    /\ \/ ev.pre.fdc.sector_ >= SECTORS_PER_TRACK
       \/ ev.pre.fdc.drives[active_drive(ev.pre.fdc)].head_track >= MAX_TRACKS

\* The last operation was a data-register access while no transfer was open.
IdleDataAccess ==
    ev.kind \in {"read", "write"} /\ ev.addr = FDC_DATA /\ ~WasInTransfer

\* C15: a Read Sector or Write Sector command whose sector or track is out
\* of range leaves exactly the record-not-found bit in the status register
\* (BUSY and DRQ clear), raises INTRQ, opens no transfer and leaves every
\* disk image unchanged; and while no transfer is open a data-register
\* access moves no sector data: it opens no transfer, does not advance the
\* buffer, changes no image, and a read returns the data register.
C15_OutOfRangeRecordNotFound ==
    /\ OutOfRangeCommand =>
          /\ fdc.status_ = ST_RNF
          /\ fdc.intrq_
          /\ ~InTransfer
          /\ ~fdc.write_pending_
          /\ fdc.drives = ev.pre.fdc.drives
    /\ IdleDataAccess =>
          /\ ~InTransfer
          /\ fdc.buf_pos_ = ev.pre.fdc.buf_pos_
          /\ fdc.drives = ev.pre.fdc.drives
          /\ ev.kind = "read" => ev.val = ev.pre.fdc.data_

\* A data-register write follows a Write Sector command that ended with
\* record-not-found.
C15_Witness ==
    /\ IdleDataAccess
    /\ ev.kind = "write"
    /\ ev.pre.fdc.status_ = ST_RNF
    /\ ev.pre.fdc.sector_ >= SECTORS_PER_TRACK
    /\ ev.pre.fdc.intrq_
    /\ fdc.data_ = ev.val

C17_ResetRestoresRom ==
    ev.kind = "reset" =>
        \A a \in RomAddrs :
            /\ a \notin DOMAIN mem
            /\ Bus_peek(Machine, a, Unwritten(bus, a)) = RomByte(a)

\* C18: when the rising edges of the playback waveform of a byte sequence
\* have been fed, at their tick times, to the recording decoder and the
\* recording is stopped (flushed), the recorded bytes are exactly the
\* sequence; until then the whole bytes recorded are a prefix of it.
C18_CassetteRoundTrip ==
    /\ Len(bus.cas_rec_data) <= Len(tape.cas_data)
    /\ \A i \in 1..Len(bus.cas_rec_data) :
          bus.cas_rec_data[i] = tape.cas_data[i]
    /\ bus.cas_state = "IDLE" => bus.cas_rec_data = tape.cas_data

\* A two-byte tape that starts with the sync byte 0xA5 and ends with a zero
\* bit has been played through and the recording flushed.
C18_Witness ==
    /\ ev.kind = "finish"
    /\ bus.cas_state = "IDLE"
    /\ bus.cas_rec_data = <<165, 84>>
    /\ tape.cas_state = "PLAYING"
    /\ ev.pre.bus.cas_rec_cycle_count = 1

\* C19: while no cassette is playing, the cassette input level changes
\* value every 1,000 ticks of bus time; bit 7 of a port 0xFF read is that
\* level at the time of the read; and a polling loop never sees the same
\* level for 1,000 ticks or more, so its wait for the other level is bounded.
C19_IdleInputToggles ==
    /\ get_cassette_signal(bus) #
           get_cassette_signal(Elapse(bus, CAS_IDLE_TOGGLE))
    /\ \A t \in {0, CAS_IDLE_TOGGLE - 1} :
           get_cassette_signal(
               Elapse(bus, t - (bus.global_t_states % CAS_IDLE_TOGGLE)))
           = get_cassette_signal(bus)
    /\ ev.kind = "poll" =>
           /\ ev.level = get_cassette_signal(ev.pre.bus)
           /\ cpu.a % 128 = ev.pre.bus.cas_prev_port_val % 128
    /\ ev.wait < CAS_IDLE_TOGGLE

\* The loop, polling since bus time 0, has seen the level fall at tick 1,000
\* after a run of high level.
C19_Witness ==
    /\ ev.kind = "poll"
    /\ ev.toggles = 1
    /\ ev.wait = 0
    /\ ~ev.level
    /\ ev.pre.bus.global_t_states >= CAS_IDLE_TOGGLE
    /\ ev.pre.bus.global_t_states < CAS_IDLE_TOGGLE + 16

\* Ticks since the start of the playback, since the last port 0xFF write of
\* the recording.
PlaybackElapsed == bus.global_t_states - bus.cas_playback_start_t
RecordingIdleFor == bus.global_t_states - bus.cas_last_activity_t

\* After a loop iteration: no recording is left with more than 200,000 ticks
\* since its last port write and no playback with (bytes + 500) x 28,384
\* ticks or more since its start; the cassette goes IDLE in an iteration
\* only when one of these deadlines has passed.
AutoStopPolled ==
    /\ bus.cas_state = "RECORDING" => RecordingIdleFor <= CAS_IDLE_TIMEOUT
    /\ bus.cas_state = "PLAYING" =>
          PlaybackElapsed < (Len(bus.cas_data) + CAS_PAD_BYTES) * 28384
    /\ (ev.kind # "init" /\ ev.pre.bus.cas_state = "RECORDING"
            /\ bus.cas_state = "IDLE") =>
          /\ RecordingIdleFor > CAS_IDLE_TIMEOUT
          /\ ev.kind # "out"
    /\ (ev.kind # "init" /\ ev.pre.bus.cas_state = "PLAYING"
            /\ bus.cas_state = "IDLE") =>
          PlaybackElapsed >= (Len(bus.cas_data) + CAS_PAD_BYTES) * 28384
    /\ (ev.kind # "init" /\ ev.pre.bus.cas_state = "IDLE") =>
          bus.cas_state = "IDLE"

C21_KeysDeliveredInOrder ==
    /\ ev.delivered \o emu.queue = ev.pushed
    /\ (ev.kind \in {"key", "step"}
            /\ ev.pre.cpu.pc = ROM_KEY /\ ev.queue # << >>) =>
          /\ ev.kind = "key"
          /\ cpu.a = Head(ev.queue)
          /\ emu.queue = Tail(ev.queue)
          /\ cpu.pc = Word(Stored(ev.pre, U16(ev.pre.cpu.sp + 1), ev.inp.d2),
                           Stored(ev.pre, ev.pre.cpu.sp, ev.inp.d1))
          /\ cpu.sp = U16(ev.pre.cpu.sp + 2)
          /\ mem = ev.pre.mem
          /\ cpu = [ev.pre.cpu EXCEPT !.a = cpu.a, !.pc = cpu.pc,
                                      !.sp = cpu.sp]
    /\ (ev.kind \in {"key", "step"}
            /\ (ev.pre.cpu.pc # ROM_KEY \/ ev.queue = << >>)) =>
          /\ ev.kind = "step"
          /\ emu.queue = ev.queue
          /\ cpu.t_states = ev.ticks
          /\ ev.ticks >= 4

\* Two queued bytes, 'A' then Enter, have been delivered by two successive
\* intercepts, the second entered through the return address of the first.
C21_Witness ==
    /\ ev.kind = "key"
    /\ ev.delivered = <<65, 13>>
    /\ ev.pre.cpu.pc = ROM_KEY
    /\ ev.pre.cpu.a = 65
    /\ emu.queue = << >>

\* C22: after the speed selection at the start of a wall frame the mode is
\* Turbo exactly when the key queue is non-empty (the user speed being
\* Normal); the frame's budget is 100 * 29,498 ticks in Turbo and 29,498 in
\* Normal, and step_frame returns only when the budget is used up;
\* Sound::clear is called at the selection exactly when the mode changes
\* from Turbo to Normal, and nowhere else.
C22_TurboWhileQueued ==
    /\ emu.user_speed_ = "NORMAL"
    /\ ev.kind = "select" =>
          /\ (emu.cur_speed_ = "TURBO") = (emu.queue # << >>)
          /\ emu.queue = ev.queue
          /\ emu.t_budget = IF emu.cur_speed_ = "TURBO"
                            THEN 100 * 29498 ELSE 29498
          /\ emu.sound_clears =
                IF ev.speed = "TURBO" /\ emu.cur_speed_ = "NORMAL"
                THEN ev.clears + 1 ELSE ev.clears
    /\ ev.kind # "select" =>
          /\ emu.cur_speed_ = ev.speed
          /\ emu.sound_clears = ev.clears
    /\ ev.kind = "frame" => ev.ticks >= emu.t_budget

\* A frame that began in Turbo has drained the queue, and the selection of
\* the next frame has gone back to Normal and called Sound::clear.
C22_Witness ==
    /\ ev.kind = "select"
    /\ ev.speed = "TURBO"
    /\ emu.cur_speed_ = "NORMAL"
    /\ emu.sound_clears = 1
    /\ emu.t_budget = T_STATES_PER_FRAME
    /\ frame.n = 1

\* C23: when the SYSTEM loader is entered and the file found has a
\* structural error, the fast-load reports failure and leaves the CPU as it
\* was, PC included; the instruction executed next is the ROM's own at the
\* intercepted address.
C23_StructuralErrorFallsThrough ==
    (ev.fired /\ ev.file.found /\ ~ev.file.wf) =>
        /\ ~ev.ok
        /\ ev.loaded.cpu = ev.pre.cpu
        /\ ev.loaded.cpu.pc = ROM_SYSTEM_ENTRY
        /\ emu.system_active_
        /\ ROM_SYSTEM_ENTRY \in bus.reads

\* A file whose first block is complete and whose second block is cut off
\* in its data has been refused after the first block was stored.
C23_Witness ==
    /\ ev.fired /\ ev.file.found /\ ~ev.file.wf
    /\ ~ev.ok
    /\ Len(ev.file.buf) = 16
    /\ Stored(ev.loaded, 20481, 0) = 17
    /\ cpu.pc = ROM_SYSTEM_ENTRY + 1

\* Offset of address a from the load address of block b, modulo 2^16; a is
\* an address of the block when the offset is below the block's length.
SysOffset(b, a) == U16(a + 65536 - b.addr)

\* Addresses that block b is to be stored at.
SysDest(b) == {U16(b.addr + j) : j \in 0..(Len(b.data) - 1)}

\* The byte that the blocks bs, stored in file order, leave at address a.
SysByteAt(bs, a) ==
    LET k == CHOOSE k \in 1..Len(bs) :
                 /\ SysOffset(bs[k], a) < Len(bs[k].data)
                 /\ \A m \in (k + 1)..Len(bs) :
                        SysOffset(bs[m], a) >= Len(bs[m].data)
    IN  bs[k].data[SysOffset(bs[k], a) + 1]

\* C24: when the SYSTEM loader is entered and the file found is a
\* structurally well-formed image, whatever its checksums, the fast-load
\* succeeds, every address of a block holds the byte of the last block in
\* file order that covers it (count 0 standing for 256 bytes), all other
\* memory and the other registers are as before, and PC is the execute
\* address of the terminator.
C24_SystemImageLoaded ==
    (ev.fired /\ ev.file.wf) =>
        LET dest == UNION {SysDest(ev.file.blocks[k]) :
                             k \in 1..Len(ev.file.blocks)}
        IN  /\ ev.ok
            /\ ev.loaded.cpu = [ev.pre.cpu EXCEPT !.pc = ev.file.exec]
            /\ \A a \in dest :
                   /\ a \in DOMAIN ev.loaded.mem
                   /\ ev.loaded.mem[a] = SysByteAt(ev.file.blocks, a)
                   /\ Bus_peek(ev.loaded, a, 0) = SysByteAt(ev.file.blocks, a)
            /\ \A a \in DOMAIN ev.loaded.mem \ dest :
                   a \in DOMAIN ev.pre.mem
                      /\ ev.loaded.mem[a] = ev.pre.mem[a]
            /\ ev.loaded.fdc = ev.pre.fdc
            /\ ~emu.system_active_
            /\ ev.cksum_errors =
                   Cardinality({k \in 1..Len(ev.file.blocks) :
                       ev.file.blocks[k].cksum #
                           GoodSum(ev.file.blocks[k].addr,
                                   ev.file.blocks[k].data)})

\* An image of a 256-byte block with count 0 at 0xFF80 and a one-byte block
\* with a wrong checksum has been loaded and runs at 0x4A00.
C24_Witness ==
    /\ ev.fired /\ ev.file.wf /\ ev.ok
    /\ Len(ev.file.blocks) = 2
    /\ Len(ev.file.blocks[1].data) = 256
    /\ ev.cksum_errors = 1
    /\ ev.loaded.cpu.pc = 18944
    /\ Stored(ev.loaded, 65535, 0) = (3 * 128 + 1) % 256
    /\ Stored(ev.loaded, 127, 0) = (3 * 256 + 1) % 256
    /\ Stored(ev.loaded, 20481, 0) = 17

\* C25: over any sequence of check_freeze calls at most one returns true;
\* the detector is latched exactly when a call has returned true, and a call
\* on a latched detector returns false and changes nothing.
C25_FreezeTripsOnce ==
    /\ ev.trips <= 1
    /\ emu.debugger_.dumped_ = (ev.trips = 1)
    /\ (ev.kind = "check" /\ ev.pre.dumped_) =>
          ~ev.tripped /\ emu.debugger_ = ev.pre

\* The detector tripped on a loop at one RAM address, and a further call
\* with the same PC has returned false.
C25_Witness ==
    /\ ev.kind = "check"
    /\ ev.pre.dumped_
    /\ ev.pre.streak_ > FREEZE_STREAK
    /\ ev.pc = ev.pre.last_pc_
    /\ ~ev.tripped
    /\ ev.trips = 1

\* C26: when opcode 0x21 follows a run of DD and FD prefix bytes, the last
\* prefix of the run alone selects the register loaded: IX after DD, IY
\* after FD, with nn from the two bytes after the opcode, and the other
\* registers as before.
C26_LastPrefixWins ==
    (ev.kind = "step" /\ ev.inp.op = OP_LD_HL_NN /\ ev.chain # << >>) =>
        LET nn == Word(ev.inp.n2, ev.inp.n1)
            last == ev.chain[Len(ev.chain)]
        IN  /\ last = PREFIX_DD =>
                  cpu = [ev.pre.cpu EXCEPT !.ix = nn, !.pc = U16(@ + 3),
                                           !.prefix = 0,
                                           !.t_states = cpu.t_states]
            /\ last = PREFIX_FD =>
                  cpu = [ev.pre.cpu EXCEPT !.iy = nn, !.pc = U16(@ + 3),
                                           !.prefix = 0,
                                           !.t_states = cpu.t_states]

\* A single DD or FD prefix selects the index register.
IdxSinglePrefix ==
    (ev.kind = "step" /\ ev.inp.op = OP_LD_HL_NN /\ Len(ev.chain) = 1) =>
        /\ ev.chain = <<PREFIX_DD>> => cpu.ix = Word(ev.inp.n2, ev.inp.n1)
        /\ ev.chain = <<PREFIX_FD>> => cpu.iy = Word(ev.inp.n2, ev.inp.n1)
        /\ cpu.hl = ev.pre.cpu.hl

\* The files of ev.dir with extension .cas or .bas in any case whose stem
\* starts with ev.filename, case ignored.
FindCandidates ==
    {f \in ev.dir :
        /\ \E k \in 2..Len(f) :
              /\ f[k] = CH_DOT
              /\ ToLower(SubSeq(f, k, Len(f))) \in {EXT_CAS, EXT_BAS}
              /\ Len(ev.filename) <= k - 1
              /\ \A m \in 1..Len(ev.filename) :
                     tolower(f[m]) = tolower(ev.filename[m])}

\* C27: find_cas_file picks, among the files with extension .cas or .bas
\* whose stem starts with the requested name, case ignored, one with the
\* shortest file name, and the .bas file when a .bas and a .cas file of
\* one stem both match; it picks nothing only when no file matches.
C27_ShortestMatchBasFirst ==
    ev.kind = "find" =>
        IF FindCandidates = {} THEN ev.picked = << >>
        ELSE /\ ev.picked \in FindCandidates
             /\ \A f \in FindCandidates : Len(ev.picked) <= Len(f)
             /\ \A f \in FindCandidates :
                    (file_ext(f) = EXT_BAS
                        /\ ToLower(stem(f)) = ToLower(stem(ev.picked)))
                    => file_ext(ev.picked) = EXT_BAS

\* The file picked is a candidate that no other candidate precedes in the
\* order of the character codes.
FindPicksLeast ==
    ev.kind = "find" =>
        IF FindCandidates = {} THEN ev.picked = << >>
        ELSE /\ ev.picked \in FindCandidates
             /\ \A f \in FindCandidates : ~StringLess(f, ev.picked)

\* C28: at every interrupt acceptance no prefix is pending, before or after
\* it: the address pushed is that of the first byte of an instruction, and
\* the first opcode at 0x0038 is decoded in the default bank.
C28_NoAcceptanceAfterPrefix ==
    ev.kind = "accept" => ev.pre.cpu.prefix = 0 /\ cpu.prefix = 0

\* C29: when an interrupt is accepted while the CPU is halted, the return
\* address pushed is the address of the HALT opcode plus 1.
C29_HaltReturnAddress ==
    (ev.kind = "accept" /\ ev.pre.cpu.halted) =>
        /\ cpu.sp = U16(ev.pre.cpu.sp - 2)
        /\ Word(Stored(Machine, U16(cpu.sp + 1), 0),
                Stored(Machine, cpu.sp, 0)) = U16(frame.halt_at + 1)

\* The address pushed at an acceptance while halted is that of the HALT
\* opcode plus 2.
HaltPushesSecondByteAfter ==
    (ev.kind = "accept" /\ ev.pre.cpu.halted) =>
        Word(Stored(Machine, U16(cpu.sp + 1), 0),
             Stored(Machine, cpu.sp, 0)) = U16(frame.halt_at + 2)

\* The machine at the start of the behaviour.
BlockStart ==
    [cpu |-> frame.cpu0, bus |-> Bus_reset(0, 0), fdc |-> fdc,
     mem |-> frame.mem0]

\* The stack cells that acceptances have written.
BlockDeadStack == {BlockStack - 2, BlockStack - 1}

BlockAcceptInsideInstruction ==
    (ev.kind = "accept" /\ ev.pre.cpu.prefix = PREFIX_ED
        /\ ev.pre.cpu.pc = BlockAt + 1) =>
          /\ Stored(Machine, cpu.sp, 0) = Lo(BlockAt + 1)
          /\ cpu.prefix = PREFIX_ED

-------------------------------------------------------------------------------
(* Video timing under direct calls of Bus::add_ticks and M1 reads of VRAM.   *)

MaxTickOps == 3

\* Tick counts passed to Bus::add_ticks: instruction lengths, one tick less
\* than a scanline, a scanline, one tick more, two scanlines.
TickSizes == {1, 4, 23, 113, 114, 115, 228}

\* Video positions at the start: cold boot, inside the contention window of
\* a visible scanline, and the last scanline of the frame.
TickStarts == {<<0, 0>>, <<100, 60>>, <<261, 100>>, <<261, 113>>}

InitTick ==
    /\ cpu = Z80_reset
    /\ \E p \in TickStarts : bus = Bus_reset(p[1], p[2])
    /\ fdc = FDC_init(FALSE)
    /\ mem = << >>
    /\ frame_ts = 0
    /\ total_ticks = 0
    /\ phase = "step"
    /\ iter = 0
    /\ frame = Frame0(cpu)
    /\ ev = [kind |-> "init", pre |-> Machine, n |-> 0, maxn |-> 0]
    /\ tape = Bus_reset(0, 0)
    /\ emu = Emu0

\* Bus::add_ticks(n)
TickCall ==
    /\ iter < MaxTickOps
    /\ \E n \in TickSizes :
          /\ bus' = Bus_add_ticks(bus, n)
          /\ ev' = [kind |-> "tick", pre |-> Machine, n |-> n,
                    maxn |-> IF n > ev.maxn THEN n ELSE ev.maxn]
    /\ iter' = iter + 1
    /\ UNCHANGED <<cpu, fdc, mem, frame_ts, total_ticks, phase, frame, tape,
                   emu>>

\* Bus::read(addr, true) of a VRAM cell: the opcode fetch that can be
\* contended.
TickFetch ==
    /\ iter < MaxTickOps
    /\ \E r \in {Bus_read(Begin(Machine), VRAM_START, TRUE, 0)} :
          /\ bus' = r.M.bus
          /\ ev' = [kind |-> "fetch", pre |-> Machine,
                    n |-> r.M.bus.global_t_states - bus.global_t_states,
                    maxn |-> ev.maxn]
    /\ iter' = iter + 1
    /\ UNCHANGED <<cpu, fdc, mem, frame_ts, total_ticks, phase, frame, tape,
                   emu>>

NextTick == TickCall \/ TickFetch

SpecTick == InitTick /\ [][NextTick]_vars

\* scanline in [0,262) and t_in_line in [0,114)
VideoInRange(b) ==
    /\ b.current_scanline >= 0
    /\ b.current_scanline < VIDEO_TOTAL_SCANLINES
    /\ b.t_states_in_scanline >= 0
    /\ b.t_states_in_scanline < VIDEO_T_STATES_PER_SCANLINE

\* C31 as stated: after any sequence of tick(n) calls with any n >= 1 and any
\* contention penalties, scanline is in [0,262), t_in_line is in [0,114) and
\* global_t has not decreased.
C31_VideoCountersInRange ==
    /\ VideoInRange(bus)
    /\ bus.global_t_states >= ev.pre.bus.global_t_states

\* C31 amended: the counters stay in range, and global_t never decreases,
\* as long as every tick(n) call so far had n of at most one scanline (114).
C31_VideoInRangeUpToOneLine ==
    /\ bus.global_t_states >= ev.pre.bus.global_t_states
    /\ ev.maxn <= VIDEO_T_STATES_PER_SCANLINE => VideoInRange(bus)

\* A tick(114) call from the last tick of the last scanline wrapped the
\* frame.
C31_Witness ==
    /\ ev.kind = "tick"
    /\ ev.n = VIDEO_T_STATES_PER_SCANLINE
    /\ ev.pre.bus.t_states_in_scanline = VIDEO_T_STATES_PER_SCANLINE - 1
    /\ ev.pre.bus.current_scanline = VIDEO_TOTAL_SCANLINES - 1
    /\ bus.current_scanline = 0
    /\ bus.t_states_in_scanline = VIDEO_T_STATES_PER_SCANLINE - 1

\* The BUSY bit and the DRQ bit of a status byte.
Busy(st) == BitSet(st, 0)
Drq(st) == BitSet(st, 1)

\* C32: in every reachable FDC state the BUSY and DRQ status bits are equal;
\* a command that starts a transfer (Read Sector, Write Sector, Read Address)
\* leaves both set, the transfer of the last byte leaves both clear, and any
\* command that starts no transfer (Force Interrupt included) leaves both
\* clear, also when it aborts a transfer.
C32_BusyEqualsDrq ==
    /\ Busy(fdc.status_) = Drq(fdc.status_)
    /\ (IsCommand /\ InTransfer) =>
           /\ CmdType \in {8, 9, 10, 11, 12}
           /\ Busy(fdc.status_) /\ Drq(fdc.status_)
    /\ (IsCommand /\ ~InTransfer) =>
           ~Busy(fdc.status_) /\ ~Drq(fdc.status_)
    /\ MovedLastByte => ~Busy(fdc.status_) /\ ~Drq(fdc.status_)

\* A Force Interrupt command aborted a transfer that had BUSY and DRQ set.
C32_Witness ==
    /\ IsCommand
    /\ CmdType = 13
    /\ WasInTransfer
    /\ Busy(ev.pre.fdc.status_) /\ Drq(ev.pre.fdc.status_)
    /\ ~Busy(fdc.status_) /\ ~Drq(fdc.status_)

-------------------------------------------------------------------------------
(* Head positioning: Restore, Seek and Step commands at both ends of the     *)
(* track range, with transfers between them.                                 *)

MaxHeadOps == 3

\* Command bytes: Restore, Seek, Step in the last direction with update,
\* Step-in with update, Step-out, Read Sector, Write Sector, Read Address.
HeadCmds == {0, 16, 48, 80, 96, 128, 160, 192}

\* Values written to the data register before a Seek: track 0, the last
\* track, one beyond it, and the largest byte.
HeadVals == {0, MAX_TRACKS - 1, MAX_TRACKS, 255}

InitHead ==
    /\ cpu = Z80_reset
    /\ bus = Bus_reset(0, 0)
    /\ \E disk \in BOOLEAN : fdc = FDC_init(disk)
    /\ mem = << >>
    /\ frame_ts = 0
    /\ total_ticks = 0
    /\ phase = "step"
    /\ iter = 0
    /\ frame = Frame0(cpu)
    /\ ev = NoEvent(Machine)
    /\ tape = Bus_reset(0, 0)
    /\ emu = Emu0

\* Bus::read of the status or the data register
HeadRead ==
    \E addr \in {FDC_STATUS, FDC_DATA} :
        \E r \in {Bus_read(Begin(Machine), addr, FALSE, 0)} :
            /\ MovesByte(addr, FALSE) \/ (iter < MaxHeadOps /\ AtEdge)
            /\ RegAccess(r.M, "read", addr, r.value, ~MovesByte(addr, FALSE))

\* Bus::write of the command or the data register
HeadWrite ==
    \E addr \in {FDC_STATUS, FDC_DATA} :
        \E val \in (CASE addr = FDC_STATUS -> HeadCmds
                      [] fdc.write_pending_ /\ InTransfer ->
                            {SectorPattern(fdc.buf_pos_)}
                      [] OTHER -> HeadVals) :
            /\ MovesByte(addr, TRUE) \/ (iter < MaxHeadOps /\ AtEdge)
            /\ RegAccess(Bus_write(Begin(Machine), addr, val), "write",
                         addr, val, ~MovesByte(addr, TRUE))

NextHead == HeadRead \/ HeadWrite

SpecHead == InitHead /\ [][NextHead]_vars

\* Every loaded drive's head is on a track of the disk.
HeadsOnDisk ==
    \A d \in 0..(DRIVES - 1) :
        fdc.drives[d].loaded =>
            fdc.drives[d].head_track >= 0 /\
            fdc.drives[d].head_track < MAX_TRACKS

\* The last operation was a data-register access that touched buf_: the
\* index it used is the position before it.
BufferAccess ==
    /\ ev.kind \in {"read", "write"}
    /\ ev.addr = FDC_DATA
    /\ WasInTransfer
    /\ ev.kind = "write" => ev.pre.fdc.write_pending_

\* C33 as stated: each loaded drive's head track stays in [0, 35) and the
\* transfer buffer satisfies 0 <= position <= length <= 256.
C33_HeadAndBufferInRange ==
    /\ HeadsOnDisk
    /\ 0 <= fdc.buf_pos_
    /\ fdc.buf_pos_ <= fdc.buf_len_
    /\ fdc.buf_len_ <= BYTES_PER_SECTOR

\* C33 amended: each loaded drive's head track stays in [0, 35); position
\* and length both stay in [0, 256], and position < length while a transfer
\* is in progress, so every buffer access uses an index in [0, 256). After
\* the last byte of a transfer the length is 0 and the position stays at the
\* old length until the next command.
C33_HeadInRangeBufferAccessInRange ==
    /\ HeadsOnDisk
    /\ 0 <= fdc.buf_pos_ /\ fdc.buf_pos_ <= BYTES_PER_SECTOR
    /\ 0 <= fdc.buf_len_ /\ fdc.buf_len_ <= BYTES_PER_SECTOR
    /\ fdc.buf_len_ > 0 => fdc.buf_pos_ < fdc.buf_len_
    /\ BufferAccess =>
           /\ ev.pre.fdc.buf_pos_ >= 0
           /\ ev.pre.fdc.buf_pos_ < BYTES_PER_SECTOR
           /\ fdc.buf_pos_ = ev.pre.fdc.buf_pos_ + 1

\* A Step-in command was executed with the head already on the last track,
\* where a Seek to a track beyond the disk had put it.
C33_Witness ==
    /\ IsCommand
    /\ CmdType = 5
    /\ ev.pre.fdc.drives[0].loaded
    /\ ev.pre.fdc.data_ >= MAX_TRACKS
    /\ ev.pre.fdc.drives[0].head_track = MAX_TRACKS - 1
    /\ fdc.drives[0].head_track = MAX_TRACKS - 1

\* The last operation was a read of the data register while a Write Sector
\* transfer was pending.
ReadDuringWrite ==
    /\ ev.kind = "read"
    /\ ev.addr = FDC_DATA
    /\ WasInTransfer
    /\ ev.pre.fdc.write_pending_

\* C34: while a Write Sector transfer is pending, a read of the data register
\* neither advances nor ends the transfer (position, length, status, INTRQ
\* and the latch stay as they were), and the write-pending latch is set only
\* while a transfer is in progress with BUSY set.
C34_ReadsLeaveWriteTransferAlone ==
    /\ ReadDuringWrite =>
           /\ fdc.buf_pos_ = ev.pre.fdc.buf_pos_
           /\ fdc.buf_len_ = ev.pre.fdc.buf_len_
           /\ fdc.status_ = ev.pre.fdc.status_
           /\ fdc.intrq_ = ev.pre.fdc.intrq_
           /\ fdc.write_pending_
    /\ fdc.write_pending_ => InTransfer /\ Busy(fdc.status_)

\* What the code does instead: a read during a pending Write Sector advances
\* the position like a read of a Read Sector transfer, and a read of the last
\* position ends the transfer with the latch still set and no sector written.
ReadAdvancesWriteTransfer ==
    ReadDuringWrite =>
        /\ fdc.buf_pos_ = ev.pre.fdc.buf_pos_ + 1
        /\ fdc.write_pending_
        /\ fdc.drives = ev.pre.fdc.drives
        /\ (ev.pre.fdc.buf_pos_ + 1 >= ev.pre.fdc.buf_len_) =>
               fdc.buf_len_ = 0 /\ ~Busy(fdc.status_) /\ fdc.intrq_

-------------------------------------------------------------------------------
(* SpecCload: step_frame iterations that enter the SYSTEM loader and the     *)
(* cassette sync search in any order.                                        *)

MaxCloadOps == 4

\* What find_cas_file finds at the SYSTEM entry: nothing, a well-formed image
\* of one block that executes at 0x4A00, and that image cut off in its block.
CloadSysImage ==
    [leader |-> 0,
     blocks |-> <<[addr |-> 20480, data |-> <<170, 187>>,
                   cksum |-> GoodSum(20480, <<170, 187>>)]>>,
     exec |-> 18944]

CloadSysFiles ==
    {NoFile,
     [found |-> TRUE, wf |-> TRUE, buf |-> FlatImage(CloadSysImage),
      blocks |-> CloadSysImage.blocks, exec |-> CloadSysImage.exec],
     [found |-> TRUE, wf |-> FALSE,
      buf |-> SubSeq(FlatImage(CloadSysImage), 1, 13),
      blocks |-> << >>, exec |-> 0]}

\* What the sync search finds: nothing, a .bas file of the lines "10", ""
\* and "a", a cassette image of two bytes.
NoTape == [found |-> FALSE, bas |-> FALSE, lines |-> << >>, data |-> << >>]

CloadFiles ==
    {NoTape,
     [found |-> TRUE, bas |-> TRUE,
      lines |-> << <<49, 48>>, << >>, <<97>> >>, data |-> << >>],
     [found |-> TRUE, bas |-> FALSE, lines |-> << >>,
      data |-> <<SYS_SYNC, 211>>]}

\* Instructions that the ROM executes between the loader entries: a NOP and
\* jumps to the two intercepted addresses.
CloadInputs ==
    {NoIn, WithAddr(OP_JP, ROM_SYSTEM_ENTRY), WithAddr(OP_JP, ROM_SYNC_SEARCH)}

\* ev.owed is the history of the loads: TRUE from a SYSTEM entry whose
\* fast-load failed until the next sync-search intercept or the next
\* successful fast-load.
InitCload ==
    /\ \E pc \in {ROM_SYSTEM_ENTRY, ROM_SYNC_SEARCH} :
          cpu = [Z80_reset EXCEPT !.pc = pc]
    /\ bus = Bus_reset(0, 0)
    /\ fdc = FDC_init(FALSE)
    /\ mem = << >>
    /\ frame_ts = 0
    /\ total_ticks = 0
    /\ phase = "step"
    /\ iter = 0
    /\ frame = Frame0(cpu)
    /\ ev = [kind |-> "init", pre |-> Machine, ticks |-> 0, queue |-> << >>,
             sys_fired |-> FALSE, sys_ok |-> FALSE, at_sync |-> FALSE,
             skipped |-> FALSE, tape |-> NoTape, hooked |-> Machine,
             was_owed |-> FALSE, owed |-> FALSE, skips |-> 0]
    /\ tape = Bus_reset(0, 0)
    /\ emu = Emu0

\* One iteration of the loop in Emulator::step_frame: the SYSTEM hook and the
\* sync-search hook on the same PC, then the rest of the loop body (the
\* tracking and CSAVE hooks and the key intercept do not fire at these
\* addresses).
CloadIter ==
    /\ iter < MaxCloadOps
    /\ \E in \in CloadInputs :
       \E file \in IF cpu.pc = ROM_SYSTEM_ENTRY THEN CloadSysFiles
                   ELSE {NoFile} :
       \E tp \in IF cpu.pc = ROM_SYNC_SEARCH THEN CloadFiles ELSE {NoTape} :
       \E h \in {on_system_entry(cpu.pc, Begin(Machine), emu, file)} :
       \E c \in {on_cload_entry(cpu.pc, h.M, h.emu, tp)} :
       \E r \in {LoopBody(c.M, frame_ts, total_ticks, in)} :
          /\ cpu' = r.M.cpu
          /\ bus' = r.M.bus
          /\ fdc' = r.M.fdc
          /\ mem' = r.M.mem
          /\ frame_ts' = r.frame_ts
          /\ total_ticks' = r.total_ticks
          /\ emu' = c.emu
          /\ ev' = [kind |-> "step", pre |-> Machine, ticks |-> r.ticks,
                    queue |-> emu.queue,
                    sys_fired |-> h.fired, sys_ok |-> h.ok,
                    at_sync |-> cpu.pc = ROM_SYNC_SEARCH /\
                                bus.cas_state = "IDLE",
                    skipped |-> c.skipped, tape |-> tp, hooked |-> c.M,
                    was_owed |-> ev.owed,
                    owed |-> IF h.fired THEN ~h.ok
                             ELSE IF cpu.pc = ROM_SYNC_SEARCH /\
                                     bus.cas_state = "IDLE"
                             THEN FALSE ELSE ev.owed,
                    skips |-> IF c.skipped THEN ev.skips + 1 ELSE ev.skips]
    /\ iter' = iter + 1
    /\ UNCHANGED <<phase, frame, tape>>

NextCload == CloadIter

SpecCload == InitCload /\ [][NextCload]_vars

-------------------------------------------------------------------------------
(* SpecWave: the playback waveform sampled around every edge, with the clock *)
(* realignment of the CLOAD tracking.                                        *)

MaxWaveOps == 3

\* Tapes: all zeros, all ones, 0x54, and the two bytes 0x80 0x01.
WaveData == {<<0>>, <<255>>, <<84>>, <<128, 1>>}

\* Bit periods followed: the bits of two bytes and two more.
WaveBits == 18

\* Ticks since the start of playback at which a run starts: the start, and
\* the last tick before each bit period.
WaveStarts ==
    {0} \cup {CAS_HALF_0 + k * CAS_BIT_PERIOD - 1 : k \in 0..(WaveBits - 1)}

\* Ticks between two samples: one tick, and the lengths that lead from the
\* tick before a bit period to the tick before and the tick of each edge.
WaveSteps == {1, CAS_HALF_1 - 1, CAS_HALF_1, CAS_HALF_0 - 1}

InitWave ==
    /\ cpu = Z80_reset
    /\ bus = Bus_reset(0, 0)
    /\ \E t0 \in CasStartTimes, data \in WaveData, e \in WaveStarts,
          playing \in BOOLEAN :
          tape = Elapse(IF playing
                        THEN start_playback(load_cas_file(
                                 Elapse(Bus_reset(0, 0), t0), data))
                        ELSE load_cas_file(Elapse(Bus_reset(0, 0), t0), data),
                        e)
    /\ fdc = FDC_init(FALSE)
    /\ mem = << >>
    /\ frame_ts = 0
    /\ total_ticks = 0
    /\ phase = "step"
    /\ iter = 0
    /\ frame = Frame0(cpu)
    /\ ev = [kind |-> "init", pre |-> tape, level |-> FALSE, again |-> tape]
    /\ emu = Emu0

\* Bus::add_ticks on the tick counter, then Bus::read_port(0xFF): bit 7 is
\* the cassette input level.
WaveSample ==
    /\ iter < MaxWaveOps
    /\ \E t \in WaveSteps :
       \E T \in {Elapse(tape, t)} :
          /\ tape' = T
          /\ ev' = [kind |-> "sample", pre |-> tape,
                    level |-> read_port(T, CAS_PORT) >= 128, again |-> T]
    /\ iter' = iter + 1
    /\ UNCHANGED <<cpu, bus, fdc, mem, frame_ts, total_ticks, phase, frame,
                   emu>>

\* Bus::realign_cas_clock; ev.again is the result of a second call at the
\* same tick.
WaveRealign ==
    /\ iter < MaxWaveOps
    /\ \E T \in {realign_cas_clock(tape)} :
          /\ tape' = T
          /\ ev' = [kind |-> "realign", pre |-> tape,
                    level |-> read_port(T, CAS_PORT) >= 128,
                    again |-> realign_cas_clock(T)]
    /\ iter' = iter + 1
    /\ UNCHANGED <<cpu, bus, fdc, mem, frame_ts, total_ticks, phase, frame,
                   emu>>

NextWave == WaveSample \/ WaveRealign

SpecWave == InitWave /\ [][NextWave]_vars

\* Ticks since the start of playback.
PlayElapsed(b) == b.global_t_states - b.cas_playback_start_t

\* Bit k of the byte stream, bytes taken most significant bit first, 0 past
\* the last byte.
StreamBit(data, k) ==
    IF k \div 8 < Len(data)
    THEN (data[(k \div 8) + 1] \div (2 ^ (7 - (k % 8)))) % 2
    ELSE 0

\* The level of the waveform e ticks after the start of playback: LOW for 1,774
\* ticks, then per bit period of 3,548 ticks HIGH, LOW in halves of 1,774
\* for a 0-bit and HIGH, LOW, HIGH, LOW in quarters of 887 for a 1-bit.
WaveLevel(data, e) ==
    IF e < 1774 THEN FALSE
    ELSE LET k   == (e - 1774) \div 3548
             off == (e - 1774) - 3548 * k
         IN  IF StreamBit(data, k) = 1
             THEN off < 887 \/ (off >= 1774 /\ off < 2661)
             ELSE off < 1774

\* C36: during playback the cassette input level read from port 0xFF is the
\* level of the waveform at (global_t - start_t) for the tape's byte stream,
\* whatever the start tick.
C36_PlaybackWaveform ==
    (ev.kind # "init" /\ tape.cas_state = "PLAYING") =>
        ev.level = WaveLevel(tape.cas_data, PlayElapsed(tape))

\* The second HIGH quarter of the last bit of the second byte 0x01, a 1-bit,
\* was sampled on its first tick.
C36_Witness ==
    /\ ev.kind = "sample"
    /\ tape.cas_state = "PLAYING"
    /\ tape.cas_data = <<128, 1>>
    /\ PlayElapsed(tape) = 1774 + 15 * 3548 + 1774
    /\ ev.level
    /\ ~WaveLevel(tape.cas_data, PlayElapsed(ev.pre))

\* Index of the byte being played e ticks after the start of playback.
PlayByte(e) == (e - 1774) \div 28384

-------------------------------------------------------------------------------
(* SpecWrap: LDIR entered with BC = 0, source and destination equal, so that *)
(* every byte, the instruction's own included, is rewritten with itself. The *)
(* 65,536 iterations are followed in three stretches: from the entry, from   *)
(* the middle of the run, and over the last bytes.                           *)

MaxWrapIter == 8

\* Bytes moved before the stretch starts.
WrapStretches == {0, 32768, 65533}

\* HL = DE at the entry: the source cells of SpecBlock, the last address, and
\* the address before the instruction.
WrapSources == {BlockSrc, 65535, BlockAt - 1}

\* History of SpecWrap: frame.cpu0 holds the registers at the entry and
\* frame.moved counts the steps that wrote a byte.
InitWrap ==
    /\ \E m \in WrapStretches, a \in WrapSources :
          /\ cpu = [Z80_reset EXCEPT !.pc = BlockAt, !.sp = BlockStack,
                                     !.hl = U16(a + m), !.de = U16(a + m),
                                     !.bc = U16(65536 - m)]
          /\ frame = [n |-> 0, accepts |-> 0,
                      cpu0 |-> [Z80_reset EXCEPT !.pc = BlockAt,
                                                 !.sp = BlockStack,
                                                 !.hl = a, !.de = a,
                                                 !.bc = 0],
                      moved |-> m]
    /\ \E p \in TickStarts : bus = Bus_reset(p[1], p[2])
    /\ fdc = FDC_init(FALSE)
    /\ mem = BlockMem(ED_LDIR)
    /\ frame_ts = 0
    /\ total_ticks = 0
    /\ phase = "step"
    /\ iter = 0
    /\ ev = NoEvent(Machine)
    /\ tape = Bus_reset(0, 0)
    /\ emu = Emu0

\* cpu_.step() and the ticks' bookkeeping while PC is inside the instruction
WrapStep ==
    /\ phase = "step"
    /\ iter < MaxWrapIter
    /\ cpu.pc \in {BlockAt, BlockAt + 1}
    /\ StepFrame_step(NoIn)
    /\ frame' = [frame EXCEPT !.moved = @ + Cardinality(bus'.writes)]
    /\ iter' = iter + 1

NextWrap == WrapStep \/ StepFrame_deliver

SpecWrap == InitWrap /\ [][NextWrap]_vars

\* C38: LDIR entered with BC = 0 moves one byte per iteration, BC counting
\* down modulo 2^16 from 0xFFFF after the first byte; it repeats while fewer
\* than 65,536 bytes are moved and ends on the 65,536th with BC = 0, HL and
\* DE back at their entry values and PC at the following instruction.
C38_LdirWrapsThroughZero ==
    /\ frame.moved <= 65536
    /\ U16(frame.moved + cpu.bc) = 0
    /\ cpu.hl = U16(frame.cpu0.hl + frame.moved)
    /\ cpu.de = U16(frame.cpu0.de + frame.moved)
    /\ frame.moved = 1 => cpu.bc = 65535
    /\ frame.moved < 65536 => cpu.pc \in {BlockAt, BlockAt + 1}
    /\ frame.moved = 65536 =>
          cpu.bc = 0 /\ cpu.pc = BlockAt + 2 /\ cpu.prefix = 0
    /\ \A a \in DOMAIN mem : mem[a] = Stored([mem |-> BlockMem(ED_LDIR)], a, 0)

\* The 65,536th byte has been moved and the instruction left, in a run that
\* rewrote the instruction's own bytes.
C38_Witness ==
    /\ frame.moved = 65536
    /\ frame.cpu0.hl = BlockAt - 1
    /\ frame.cpu0.bc = 0
    /\ cpu.bc = 0
    /\ cpu.pc = BlockAt + 2
    /\ ev.kind = "step"
    /\ ev.pre.cpu.bc = 1

-------------------------------------------------------------------------------
(* SpecRom: calls of the freeze detector after long loops in ROM and in RAM  *)

\* The detector after n >= FREEZE_WINDOW calls with the one PC p below
\* RAM_START: the streak has grown with every call, and the accumulator was
\* cleared by every call made with the window full.
DebuggerAfterRomLoop(p, n) ==
    [DebuggerAfterLoop(p, p, n) EXCEPT !.ticks_acc_ = 0]

\* Detector states at the start: those of SpecDbg, and a loop on $KEY two
\* calls before its streak passes FREEZE_STREAK, and one that has run for
\* more steps than FREEZE_TICKS allows a loop in RAM.
RomStarts ==
    DbgStarts \cup
    {DebuggerAfterRomLoop(ROM_KEY, FREEZE_STREAK),
     DebuggerAfterRomLoop(ROM_KEY, FREEZE_TICKS \div 4 + FREEZE_WINDOW)}

InitRom ==
    /\ cpu = Z80_reset
    /\ bus = Bus_reset(0, 0)
    /\ fdc = FDC_init(FALSE)
    /\ mem = << >>
    /\ frame_ts = 0
    /\ total_ticks = 0
    /\ phase = "step"
    /\ iter = 0
    /\ frame = Frame0(cpu)
    /\ \E d \in RomStarts : emu = [Emu0 EXCEPT !.debugger_ = d]
    /\ ev = [kind |-> "init", pre |-> emu.debugger_, pc |-> 0,
             tripped |-> FALSE, trips |-> 0]
    /\ tape = Bus_reset(0, 0)

NextRom == DbgCheck

SpecRom == InitRom /\ [][NextRom]_vars

\* C39: a check_freeze call whose PC is below 0x4000 returns false and leaves
\* the detector unlatched if it was, whatever the streak and the accumulator
\* have reached; with the window full it leaves the accumulator at zero.
C39_NoTripBelowRam ==
    (ev.kind = "check" /\ ev.pc < RAM_START) =>
        /\ ~ev.tripped
        /\ emu.debugger_.dumped_ = ev.pre.dumped_
        /\ (emu.debugger_.win_full_ /\ ~ev.pre.dumped_) =>
              emu.debugger_.ticks_acc_ = 0

\* A call with the PC of $KEY after more than 100,000 consecutive calls with
\* that PC has returned false.
C39_Witness ==
    /\ ev.kind = "check"
    /\ ev.pc = ROM_KEY
    /\ ev.pc < RAM_START
    /\ ev.pre.streak_ > FREEZE_STREAK
    /\ emu.debugger_.streak_ = ev.pre.streak_ + 1
    /\ ~ev.tripped
    /\ ~emu.debugger_.dumped_

-------------------------------------------------------------------------------
(* SpecTerm: calls of step_frame(t_budget) followed to the exit of the loop; *)
(* emu.t_budget holds the argument. A call with a small budget is followed   *)
(* from its start, calls with the Normal and the Turbo budget from a few     *)
(* ticks before the budget is reached.                                       *)

\* Budget of the call followed from its start.
TermBudget == 40

\* Ticks left to the budget when a call with the Normal or Turbo budget is
\* taken up.
TermSlacks == {1, 5}

\* Budget and frame tick count at the start.
TermCalls ==
    {<<TermBudget, 0>>}
    \cup {<<b, b - s>> : b \in {T_STATES_PER_FRAME, TURBO_T_STATES},
                         s \in TermSlacks}

\* The CPU at the start: as reset, halted, between an ED prefix and its
\* opcode, and at $KEY.
TermCpus ==
    {Z80_reset,
     [Z80_reset EXCEPT !.halted = TRUE],
     [Z80_reset EXCEPT !.prefix = PREFIX_ED, !.pc = 1],
     [Z80_reset EXCEPT !.pc = ROM_KEY, !.sp = BlockStack]}

\* Keystroke queues at the start: empty, and "A" and Enter.
TermQueues == {<< >>, <<65, 13>>}

\* Instructions of SpecTerm: NOP, HALT, EI, the four prefixes, and JP $KEY;
\* the bytes at SP and SP+1 are the address of $KEY. Byte 0 after a prefix
\* is an opcode without a handler of its own in the ED, DD and FD tables.
TermInputs ==
    {[i EXCEPT !.d1 = Lo(ROM_KEY), !.d2 = Hi(ROM_KEY)] :
        i \in {[NoIn EXCEPT !.op = o] :
                  o \in {OP_NOP, OP_HALT, OP_EI, PREFIX_CB, PREFIX_ED,
                         PREFIX_DD, PREFIX_FD}}
              \cup {WithAddr(OP_JP, ROM_KEY)}}

\* History of SpecTerm in ev: kind is the branch the last iteration took,
\* seen the branches taken so far.
InitTerm ==
    /\ cpu \in TermCpus
    /\ \E p \in TickStarts : bus = Bus_reset(p[1], p[2])
    /\ fdc = FDC_init(FALSE)
    /\ mem = << >>
    /\ \E c \in TermCalls, q \in TermQueues :
          /\ emu = [Emu0 EXCEPT !.t_budget = c[1], !.queue = q]
          /\ frame_ts = c[2]
          /\ total_ticks = c[2]
    /\ phase = "step"
    /\ iter = 0
    /\ frame = Frame0(cpu)
    /\ ev = [kind |-> "init", pre |-> Machine, ticks |-> 0, seen |-> {}]
    /\ tape = Bus_reset(0, 0)

\* One iteration of while (frame_ts < t_budget): the intercept, and when it
\* returns false the rest of the loop body.
TermIter ==
    /\ frame_ts < emu.t_budget
    /\ \E in \in TermInputs :
       \E k \in {handle_intercept(Begin(Machine), emu.queue, frame_ts, cpu.pc,
                                  in.d1, in.d2)} :
          /\ k.handled \/ cpu.halted
                \/ FetchedOp(Machine, in) \in Decodable(cpu.prefix)
          /\ \E r \in {IF k.handled
                       THEN [M |-> k.M, frame_ts |-> k.frame_ts,
                             total_ticks |-> total_ticks, ticks |-> KEY_TICKS]
                       ELSE LoopBody(Machine, frame_ts, total_ticks, in)},
                kind \in {IF k.handled THEN "key"
                          ELSE IF cpu.prefix # 0 THEN "prefixed"
                          ELSE IF cpu.halted THEN "halted"
                          ELSE "main"} :
                /\ cpu' = r.M.cpu
                /\ bus' = r.M.bus
                /\ fdc' = r.M.fdc
                /\ mem' = r.M.mem
                /\ frame_ts' = r.frame_ts
                /\ total_ticks' = r.total_ticks
                /\ emu' = [emu EXCEPT !.queue = k.queue]
                /\ ev' = [kind |-> kind, pre |-> Machine, ticks |-> r.ticks,
                          seen |-> ev.seen \cup {kind}]
    /\ UNCHANGED <<phase, iter, frame, tape>>

NextTerm == TermIter

\* The loop runs whenever its condition holds.
SpecTerm == InitTerm /\ [][NextTerm]_vars /\ WF_vars(TermIter)

\* C40: every iteration of the loop in step_frame adds at least 4 ticks to
\* the frame tick count, a handled intercept exactly 10, and is taken only
\* below the budget; and the frame tick count reaches the budget, where the
\* loop exits.
C40_StepFrameTerminates ==
    /\ [][/\ frame_ts < emu.t_budget
          /\ frame_ts' >= frame_ts + 4
          /\ ev'.kind = "key" => frame_ts' = frame_ts + KEY_TICKS
          /\ emu'.t_budget = emu.t_budget]_vars
    /\ <>(frame_ts >= emu.t_budget)

\* The call with the small budget has left the loop after iterations that
\* took the intercept, the halted branch, the prefixed branch and the main
\* branch.
C40_Witness ==
    /\ emu.t_budget = TermBudget
    /\ frame_ts >= emu.t_budget
    /\ ev.seen = {"key", "halted", "prefixed", "main"}
    /\ ev.pre.cpu.halted

=============================================================================
